---- MODULE Spec2Model ----
(***************************************************************************)
(* Cart / promo / pricing core of the pub site (src/app.py).               *)
(*                                                                         *)
(* Every request handler is one atomic action (one request is served at a  *)
(* time).  Amounts computed by the handlers are Python floats; they are     *)
(* kept here as fixed-point integers with Scale units per rouble, which is  *)
(* exact for the whole-number prices and percentages the model draws.      *)
(* Numbers stored in documents (menu prices, promo value / min_subtotal,   *)
(* site cart settings, unit_price of a cart line) are plain numbers.       *)
(***************************************************************************)
EXTENDS Integers, Sequences, FiniteSets, TLC

\* ------------------------------------------------------------------ bounds
MaxQty == 2        \* largest qty a cart line may reach in the model
MaxOrders == 1     \* largest number of rows in the order log
MaxDay == 1        \* the calendar runs over days 0..MaxDay

\* ------------------------------------------------------- fixed-point money
Scale == 100 * 100

Money(v) == v * Scale

Max(a, b) == IF a >= b THEN a ELSE b

Min(a, b) == IF a <= b THEN a ELSE b

\* x * (p / 100.0) for an amount x >= 0 and a whole percentage p
PctOf(x, p) == (x \div 100) * p + ((x % 100) * p) \div 100

\* f"{x:.2f}": the amount rounded to kopecks (half to even), in kopecks
Fmt2(x) ==
  LET q == x \div 100
      r == x % 100
  IN  IF r > 50 \/ (r = 50 /\ q % 2 = 1) THEN q + 1 ELSE q

\* ------------------------------------------------------------ menu catalog
NoPrice == [kind |-> "none", v |-> 0]

Num(v) == [kind |-> "num", v |-> v]

Ale == [name |-> "Ale", price |-> Num(300), variants |-> <<>>]

Stout == [name |-> "Stout", price |-> NoPrice, variants |-> <<>>]

\* a price that is not a number, such as "ask the waiter"
Txt == [kind |-> "text", v |-> 0]

\* float(price) raised and nothing caught it
Raised == [kind |-> "raise", v |-> 0]

Cider == [name |-> "Cider", price |-> Txt, variants |-> <<>>]

Soup == [name |-> "Soup", price |-> NoPrice,
         variants |-> <<[label |-> "big", price |-> Num(1000)],
                        [label |-> "small", price |-> Txt]>>]

\* the catalog document the shop opens with: category -> list of items |
\* {subsections: {name: items}}
Menu0 ==
  [Beer |-> [shape |-> "list", items |-> <<Ale, Stout, Cider>>, subs |-> <<>>],
   Food |-> [shape |-> "subsections", items |-> <<>>, subs |-> [Hot |-> <<Soup>>]]]

VARIABLE menu_json   \* data/menu.json: the catalog document

load_menu == menu_json

NoItem == [name |-> "", price |-> NoPrice, variants |-> <<>>, found |-> FALSE]

Found(item) == [name |-> item.name, price |-> item.price,
                variants |-> item.variants, found |-> TRUE]

\* item_idx is a 0-based index that the caller has checked to be >= 0
\* items[i] of a Python list as a position of the sequence: a negative i
\* counts from the end, and 0 stands for IndexError
PyIndex(items, i) ==
  IF 0 <= i /\ i < Len(items) THEN i + 1
  ELSE IF i < 0 /\ 0 - i <= Len(items) THEN Len(items) + i + 1
  ELSE 0

\* _find_menu_item that, given no subsection or an unknown one, looks in
\* some subsection of the category
_find_menu_item_any_subsection(category, subname, item_idx) ==
  LET menu == load_menu IN
  IF category \notin DOMAIN menu THEN NoItem
  ELSE LET cat == menu[category] IN
       IF cat.shape = "subsections"
       THEN LET name == IF subname \in DOMAIN cat.subs THEN subname
                        ELSE CHOOSE n \in DOMAIN cat.subs : TRUE
                items == cat.subs[name] IN
            IF PyIndex(items, item_idx) # 0 THEN Found(items[PyIndex(items, item_idx)])
            ELSE NoItem
       ELSE IF PyIndex(cat.items, item_idx) # 0
            THEN Found(cat.items[PyIndex(cat.items, item_idx)])
            ELSE NoItem

_find_menu_item(category, subname, item_idx) ==
  LET menu == load_menu IN
  IF category \notin DOMAIN menu THEN NoItem
  ELSE LET cat == menu[category] IN
       IF cat.shape = "subsections"
       THEN IF subname = "" \/ subname \notin DOMAIN cat.subs THEN NoItem
            ELSE LET items == cat.subs[subname] IN
                 IF PyIndex(items, item_idx) # 0
                 THEN Found(items[PyIndex(items, item_idx)])
                 ELSE NoItem
       ELSE IF PyIndex(cat.items, item_idx) # 0
            THEN Found(cat.items[PyIndex(cat.items, item_idx)])
            ELSE NoItem

\* (variant label or "", unit price or NoPrice)
_resolve_price_variant(item, variant_idx) ==
  IF variant_idx < 0
  THEN [label |-> "", price |-> IF item.price.kind = "text" THEN Raised
                                ELSE item.price]
  ELSE IF variant_idx + 1 \in DOMAIN item.variants
       THEN LET v == item.variants[variant_idx + 1] IN
            IF v.price.kind = "num" THEN [label |-> v.label, price |-> v.price]
            ELSE [label |-> "", price |-> NoPrice]
       ELSE [label |-> "", price |-> NoPrice]

\* ------------------------------------------------------------ cart helpers
Sku(row) == <<row.category, row.subname, row.name, row.variant>>

RECURSIVE SumSeq(_)
SumSeq(q) == IF q = <<>> THEN 0 ELSE Head(q) + SumSeq(Tail(q))

calc_subtotal(c) == SumSeq([k \in DOMAIN c |-> Money(c[k].unit_price) * c[k].qty])

\* a badge that counts the lines of the cart
calc_cart_count_lines(c) == Len(c)

calc_cart_count(c) == SumSeq([k \in DOMAIN c |-> c[k].qty])

\* list.pop(idx) for a 0-based idx inside the list
Pop(c, idx) == [k \in 1..(Len(c) - 1) |-> IF k <= idx THEN c[k] ELSE c[k + 1]]

\* FirstMatch that compares nothing: no line is ever found
FirstMatch_never(c, sku) == 0

\* a merge loop that looks at the last line of the cart only
FirstMatch_last_line_only(c, sku) ==
  IF c # <<>> /\ <<c[Len(c)].category, c[Len(c)].subname, c[Len(c)].name,
                   c[Len(c)].variant>> = sku
  THEN Len(c) ELSE 0

\* position (1-based) of the first line with the given sku, 0 if none
FirstMatch(c, sku) ==
  IF \E k \in DOMAIN c : Sku(c[k]) = sku
  THEN CHOOSE k \in DOMAIN c : Sku(c[k]) = sku /\ \A j \in 1..(k - 1) : Sku(c[j]) # sku
  ELSE 0

\* ------------------------------------------------------------ promo helpers
NoDate == -1       \* expires_at absent (None)

NoCode == ""       \* no promo code stored in the session

\* str.strip().upper() on the codes the model draws
Upper(c) ==
  CASE c = "save10" -> "SAVE10"
    [] c = "fix" -> "FIX"
    [] c = "nope" -> "NOPE"
    [] OTHER -> c

\* all normalized codes, in the order sorted() gives them
CodeOrder == <<"FIX", "NOPE", "SAVE10">>

Abs(v) == IF v < 0 THEN -v ELSE v

\* the record _normalize_promo returns; a record whose code is "" is dropped
\* by the callers (the function returns None for it)
_normalize_promo(item) ==
  [code |-> Upper(item.code),
   type |-> IF item.type \in {"fixed", "amount"} THEN "fixed" ELSE "percent",
   value |-> Abs(item.value),
   min_subtotal |-> Max(0, item.min_subtotal),
   expires_at |-> item.expires_at,
   max_uses |-> Max(0, item.max_uses),
   used |-> Max(0, item.used),
   active |-> item.active]

RECURSIVE LoadSorted(_, _)
LoadSorted(order, data) ==
  IF order = <<>> THEN <<>>
  ELSE LET c == Head(order)
           hits == {k \in DOMAIN data : _normalize_promo(data[k]).code = c}
       IN  (IF hits = {} THEN <<>>
            ELSE <<_normalize_promo(data[CHOOSE k \in hits : \A j \in hits : j <= k])>>)
           \o LoadSorted(Tail(order), data)

\* the promo document as the handlers see it: one record per code (the last
\* one in the file), sorted by code
load_promocodes(data) == LoadSorted(CodeOrder, data)

RECURSIVE SaveClean(_, _)
SaveClean(items, seen) ==
  IF items = <<>> THEN <<>>
  ELSE LET norm == _normalize_promo(Head(items)) IN
       IF norm.code = "" \/ norm.code \in seen
       THEN SaveClean(Tail(items), seen)
       ELSE <<norm>> \o SaveClean(Tail(items), seen \cup {norm.code})

\* the promo document save_promocodes writes for a list of records
save_promocodes(items) == SaveClean(items, {})

\* position (1-based) of the first record with the code in a list, 0 if none
FindPromo(list, code) ==
  IF \E k \in DOMAIN list : list[k].code = code
  THEN CHOOSE k \in DOMAIN list :
         list[k].code = code /\ \A j \in 1..(k - 1) : list[j].code # code
  ELSE 0

\* _promo_status without the test of the active flag
_promo_status_ignores_active(promo, subtotal, now) ==
  IF promo.expires_at # NoDate /\ now > promo.expires_at THEN "expired"
  ELSE IF promo.max_uses > 0 /\ promo.used >= promo.max_uses THEN "limit"
  ELSE IF subtotal < Money(promo.min_subtotal) THEN "pending"
  ELSE "ok"

\* _promo_status without the test of the usage cap
_promo_status_no_limit(promo, subtotal, now) ==
  IF ~promo.active THEN "inactive"
  ELSE IF promo.expires_at # NoDate /\ now > promo.expires_at THEN "expired"
  ELSE IF subtotal < Money(promo.min_subtotal) THEN "pending"
  ELSE "ok"

\* _promo_status with the usage cap tested before the expiry date
_promo_status_cap_first(promo, subtotal, now) ==
  IF ~promo.active THEN "inactive"
  ELSE IF promo.max_uses > 0 /\ promo.used >= promo.max_uses THEN "limit"
  ELSE IF promo.expires_at # NoDate /\ now > promo.expires_at THEN "expired"
  ELSE IF subtotal < Money(promo.min_subtotal) THEN "pending"
  ELSE "ok"

_promo_status(promo, subtotal, now) ==
  IF ~promo.active THEN "inactive"
  ELSE IF promo.expires_at # NoDate /\ now > promo.expires_at THEN "expired"
  ELSE IF promo.max_uses > 0 /\ promo.used >= promo.max_uses THEN "limit"
  ELSE IF subtotal < Money(promo.min_subtotal) THEN "pending"
  ELSE "ok"

\* _calc_promo_discount without the cap at subtotal
_calc_promo_discount_uncapped(subtotal, promo) ==
  IF subtotal <= 0 \/ promo.value <= 0 THEN 0
  ELSE LET disc == IF promo.type = "fixed" THEN Money(promo.value)
                   ELSE PctOf(subtotal, promo.value)
       IN  Max(0, disc)

_calc_promo_discount(subtotal, promo) ==
  IF subtotal <= 0 \/ promo.value <= 0 THEN 0
  ELSE LET disc == IF promo.type = "fixed" THEN Money(promo.value)
                   ELSE PctOf(subtotal, promo.value)
       IN  Min(subtotal, Max(0, disc))

NoPromo == [code |-> "", type |-> "percent", value |-> 0, min_subtotal |-> 0,
            expires_at |-> NoDate, max_uses |-> 0, used |-> 0, active |-> FALSE]

\* get_applied_promo without its set_promo_code(None) calls
get_applied_promo_keep(code, data, subtotal, now) ==
  LET list == load_promocodes(data)
      k == FindPromo(list, code)
  IN  IF code = NoCode
      THEN [code |-> code, found |-> FALSE, promo |-> NoPromo, discount |-> 0,
            status |-> "none", stored |-> NoCode]
      ELSE IF k = 0
      THEN [code |-> code, found |-> FALSE, promo |-> NoPromo, discount |-> 0,
            status |-> "invalid", stored |-> code]
      ELSE LET promo == list[k]
               status == _promo_status(promo, subtotal, now)
           IN  [code |-> code, found |-> TRUE, promo |-> promo,
                discount |-> IF status = "ok"
                             THEN _calc_promo_discount(subtotal, promo) ELSE 0,
                status |-> status, stored |-> code]

\* the state dict of get_applied_promo plus `stored`, the promo code the
\* session holds when the function returns
get_applied_promo(code, data, subtotal, now) ==
  LET list == load_promocodes(data)
      k == FindPromo(list, code)
  IN  IF code = NoCode
      THEN [code |-> code, found |-> FALSE, promo |-> NoPromo, discount |-> 0,
            status |-> "none", stored |-> NoCode]
      ELSE IF k = 0
      THEN [code |-> code, found |-> FALSE, promo |-> NoPromo, discount |-> 0,
            status |-> "invalid", stored |-> NoCode]
      ELSE LET promo == list[k]
               status == _promo_status(promo, subtotal, now)
           IN  [code |-> code, found |-> TRUE, promo |-> promo,
                discount |-> IF status = "ok"
                             THEN _calc_promo_discount(subtotal, promo) ELSE 0,
                status |-> status,
                stored |-> IF status \in {"inactive", "expired", "limit"}
                           THEN NoCode ELSE code]

\* _increment_promo_usage without the test on the code: every record counts
_increment_promo_usage_all(data, code) ==
  LET list == load_promocodes(data)
  IN  IF code = "" THEN data
      ELSE save_promocodes([k \in DOMAIN list |->
                              [list[k] EXCEPT !.used = Max(0, list[k].used) + 1]])

\* the second half of _increment_promo_usage: the loop over the list it has
\* loaded and the save; data is the promo document at the time of the save
IncrementLoaded(list, data, code) ==
  LET k == FindPromo(list, code)
  IN  IF code = "" \/ k = 0 THEN data
      ELSE save_promocodes([list EXCEPT ![k].used = Max(0, list[k].used) + 1])

\* the promo document after _increment_promo_usage(code) run without
\* interruption
_increment_promo_usage(data, code) == IncrementLoaded(load_promocodes(data), data, code)

\* ----------------------------------------------------------------- pricing
compute_shipping(subtotal, cfg) ==
  IF subtotal > 0 /\ subtotal >= Money(cfg.free_from) THEN 0
  ELSE Money(cfg.delivery_price)

\* ------------------------------------------------------------------- state
Sessions == {"s1", "s2"}   \* browser sessions that exist
Clients == {"s1"}          \* the sessions that send requests in Spec

VARIABLES
  session_cart,    \* session["cart"] of each session: the list of cart lines
  session_promo,   \* session["promo_code"] of each session, NoCode if absent
  promos,          \* data/promocodes.json: the list of promo records
  orders,          \* data/orders.csv: the rows of the order log
  site_cart,       \* the "cart" section of data/site.json
  today,           \* datetime.now().date(), as a day number
  last,            \* the last request served: the handler, the session, the
                   \* outcome, and the promo code the session held before it
  inflight,        \* per session, the order_submit request that is between
                   \* the load and the save of _increment_promo_usage
  fs               \* the files of the promo store: the inode behind
                   \* promocodes.json, the inode behind promocodes.tmp (0 if
                   \* there is none), each inode's content, and how far each
                   \* running save_promocodes call has come

vars == <<session_cart, session_promo, promos, orders, site_cart, today, last,
          inflight, menu_json, fs>>

\* ---- the promo store as files
Inodes == 1..4

\* the chunks json.dump writes for the document of a writer
Doc(w) == <<[by |-> w, part |-> "head"], [by |-> w, part |-> "tail"]>>

\* a region of a file that was never written (reads as zero bytes)
Hole == [by |-> "", part |-> "hole"]

NotWriting == [pc |-> "idle", h |-> 0, n |-> 0]

FsInit ==
  [store |-> 1, tmp |-> 0,
   data |-> [i \in Inodes |-> IF i = 1 THEN Doc("init") ELSE <<>>],
   w |-> [s \in Sessions |-> NotWriting]]

\* no request of the session is in flight
Idle == [pc |-> "idle", code |-> "", list |-> <<>>]

NoView == [subtotal |-> 0, discount |-> 0, subtotal_after |-> 0, delivery |-> 0,
           pickup_discount |-> 0, total |-> 0, status |-> "", code |-> "",
           method |-> "", payment |-> "", change |-> [kind |-> "none", v |-> 0]]

Reply(op, s, result) ==
  last' = [op |-> op, s |-> s, result |-> result,
           had |-> IF s \in Sessions THEN session_promo[s] ELSE NoCode,
           tg |-> "none"]

\* defaults of load_site()
DefaultCartCfg == [delivery_price |-> 200, free_from |-> 1500, pickup_discount |-> 0]

Init ==
  /\ session_cart = [s \in Sessions |-> <<>>]
  /\ session_promo = [s \in Sessions |-> NoCode]
  /\ promos = <<>>
  /\ orders = <<>>
  /\ site_cart = DefaultCartCfg
  /\ today = 0
  /\ last = [op |-> "start", s |-> "", result |-> "", had |-> NoCode, tg |-> "none"]
  /\ inflight = [s \in Sessions |-> Idle]
  /\ menu_json = Menu0
  /\ fs = FsInit

\* the model follows the shop until MaxOrders rows are on the order log
Open == Len(orders) < MaxOrders

\* ---------------------------------------------------------------- cart_add
\* the forms the model posts: <<category, subname, item_idx, variant_idx>>
AddForms ==
  {<<"Beer", "", 0, -1>>,      \* Ale, flat price
   <<"Food", "Hot", 0, 0>>,    \* Soup, variant "big"
   <<"Beer", "", 1, -1>>,      \* Stout: no price
   <<"Beer", "", 2, -1>>,      \* Cider: the price is not a number
   <<"Food", "Hot", 0, 1>>,    \* Soup, variant "small": price not a number
   <<"Beer", "", 0, 0>>,       \* Ale has no variants
   <<"Food", "Hot", 0, -1>>,   \* Soup has no flat price
   <<"Food", "Hot", 0, 2>>,    \* variant index past the list
   <<"Food", "", 0, 0>>,       \* subsection missing
   <<"Food", "Cold", 0, 0>>,   \* subsection unknown
   <<"Wine", "", 0, -1>>,      \* category unknown
   <<"Beer", "", 3, -1>>,      \* item index past the list
   <<"Beer", "", -1, -1>>,     \* item index missing
   <<"", "", 0, -1>>}          \* category missing
\* the qty field: 0 is raised to 1 by the handler
QtyInputs == {0, 2}
\* forms that name a priced item are posted with every qty, the others with one
AddRequests ==
  {<<f, q>> : f \in {g \in AddForms : g[1] \in {"Beer", "Food"} /\ g[2] # "Cold"
                                     /\ g[3] = 0 /\ (g[1] = "Beer") = (g[4] = -1)
                                     /\ (g[1] = "Food") = (g[2] = "Hot" /\ g[4] = 0)},
              q \in QtyInputs}
  \cup {<<f, 1>> : f \in AddForms}

\* POST /cart/add that drops the stored promo code whenever it changes the cart
cart_add_fx_forgets_promo(c, code, category, subname, item_idx, variant_idx, qty_in) ==
  LET qty == Max(1, qty_in)
      src_item == _find_menu_item(category, subname, item_idx)
      rv == _resolve_price_variant(src_item, variant_idx)
      sku == <<category, subname, src_item.name, rv.label>>
      k == FirstMatch(c, sku)
      appended == Append(c, [category |-> category, subname |-> subname,
                             name |-> src_item.name, variant |-> rv.label,
                             unit_price |-> rv.price.v, qty |-> qty])
  IN  IF category = "" \/ item_idx < 0
      THEN [result |-> "bad_request", cart |-> c, promo_code |-> code]
      ELSE IF ~src_item.found
      THEN [result |-> "not_found", cart |-> c, promo_code |-> code]
      ELSE IF rv.price.kind = "raise"
      THEN [result |-> "error_500", cart |-> c, promo_code |-> code]
      ELSE IF rv.price.kind # "num"
      THEN [result |-> "no_price", cart |-> c, promo_code |-> code]
      ELSE IF k # 0
      THEN [result |-> "merged", cart |-> [c EXCEPT ![k].qty = c[k].qty + qty],
            promo_code |-> NoCode]
      ELSE [result |-> "added", cart |-> appended, promo_code |-> NoCode]

\* what POST /cart/add does to a cart c and a stored promo code
\* cart_add that, on a merge, also writes the price the catalog gives now
cart_add_fx_reprices(c, code, category, subname, item_idx, variant_idx, qty_in) ==
  LET qty == Max(1, qty_in)
      src_item == _find_menu_item(category, subname, item_idx)
      rv == _resolve_price_variant(src_item, variant_idx)
      sku == <<category, subname, src_item.name, rv.label>>
      k == FirstMatch(c, sku)
      appended == Append(c, [category |-> category, subname |-> subname,
                             name |-> src_item.name, variant |-> rv.label,
                             unit_price |-> rv.price.v, qty |-> qty])
  IN  IF category = "" \/ item_idx < 0
      THEN [result |-> "bad_request", cart |-> c, promo_code |-> code]
      ELSE IF ~src_item.found
      THEN [result |-> "not_found", cart |-> c, promo_code |-> code]
      ELSE IF rv.price.kind = "raise"
      THEN [result |-> "error_500", cart |-> c, promo_code |-> code]
      ELSE IF rv.price.kind # "num"
      THEN [result |-> "no_price", cart |-> c, promo_code |-> code]
      ELSE IF k # 0
      THEN [result |-> "merged",
            cart |-> [c EXCEPT ![k].qty = c[k].qty + qty,
                               ![k].unit_price = rv.price.v],
            promo_code |-> code]
      ELSE [result |-> "added", cart |-> appended,
            promo_code |-> IF appended = <<>> THEN NoCode ELSE code]

cart_add_fx(c, code, category, subname, item_idx, variant_idx, qty_in) ==
  LET qty == Max(1, qty_in)
      src_item == _find_menu_item(category, subname, item_idx)
      rv == _resolve_price_variant(src_item, variant_idx)
      sku == <<category, subname, src_item.name, rv.label>>
      k == FirstMatch(c, sku)
      appended == Append(c, [category |-> category, subname |-> subname,
                             name |-> src_item.name, variant |-> rv.label,
                             unit_price |-> rv.price.v, qty |-> qty])
  IN  IF category = "" \/ item_idx < 0
      THEN [result |-> "bad_request", cart |-> c, promo_code |-> code]
      ELSE IF ~src_item.found
      THEN [result |-> "not_found", cart |-> c, promo_code |-> code]
      ELSE IF rv.price.kind = "raise"
      THEN [result |-> "error_500", cart |-> c, promo_code |-> code]
      ELSE IF rv.price.kind # "num"
      THEN [result |-> "no_price", cart |-> c, promo_code |-> code]
      ELSE IF k # 0
      THEN [result |-> "merged", cart |-> [c EXCEPT ![k].qty = c[k].qty + qty],
            promo_code |-> code]
      ELSE [result |-> "added", cart |-> appended,
            promo_code |-> IF appended = <<>> THEN NoCode ELSE code]

QtyBounded(c) == \A k \in DOMAIN c : c[k].qty <= MaxQty

cart_add(s, category, subname, item_idx, variant_idx, qty_in) ==
  \E r \in {cart_add_fx(session_cart[s], session_promo[s], category, subname,
                       item_idx, variant_idx, qty_in)} :
      /\ Open
      /\ QtyBounded(r.cart)
      /\ session_cart' = [session_cart EXCEPT ![s] = r.cart]
      /\ session_promo' = [session_promo EXCEPT ![s] = r.promo_code]
      /\ Reply("cart_add", s, r.result)
      /\ UNCHANGED <<menu_json, fs, inflight, promos, orders, site_cart, today>>

\* ------------------------------------------------------------- cart_remove
IdxInputs == {0, 1, 2}

cart_remove_fx(c, code, idx) ==
  IF 0 <= idx /\ idx < Len(c)
  THEN [result |-> "removed", cart |-> Pop(c, idx),
        promo_code |-> IF Pop(c, idx) = <<>> THEN NoCode ELSE code]
  ELSE [result |-> "not_found", cart |-> c, promo_code |-> code]

cart_remove(s, idx) ==
  \E r \in {cart_remove_fx(session_cart[s], session_promo[s], idx)} :
      /\ Open
      /\ session_cart' = [session_cart EXCEPT ![s] = r.cart]
      /\ session_promo' = [session_promo EXCEPT ![s] = r.promo_code]
      /\ Reply("cart_remove", s, r.result)
      /\ UNCHANGED <<menu_json, fs, inflight, promos, orders, site_cart, today>>

\* ------------------------------------------------------------- cart_update
\* <<action, qty>>: the relative actions, and absolute quantities
UpdateForms == {<<"inc", 1>>, <<"dec", 1>>, <<"set", -1>>, <<"set", 0>>, <<"set", 2>>}

\* cart_update that stores the clamped qty even when it is 0
cart_update_fx_stores_zero(c, code, idx, action, qty_in) ==
  IF ~(0 <= idx /\ idx < Len(c))
  THEN [result |-> "not_found", cart |-> c, promo_code |-> code]
  ELSE LET cur == c[idx + 1].qty
           req == IF action = "inc" THEN cur + 1
                  ELSE IF action = "dec" THEN cur - 1
                  ELSE qty_in
           new_q == Max(0, req)
       IN  [result |-> "updated", cart |-> [c EXCEPT ![idx + 1].qty = new_q],
            promo_code |-> code]

cart_update_fx(c, code, idx, action, qty_in) ==
  IF ~(0 <= idx /\ idx < Len(c))
  THEN [result |-> "not_found", cart |-> c, promo_code |-> code]
  ELSE LET cur == c[idx + 1].qty
           req == IF action = "inc" THEN cur + 1
                  ELSE IF action = "dec" THEN cur - 1
                  ELSE qty_in
           new_q == Max(0, req)
       IN  IF new_q = 0
           THEN [result |-> "updated", cart |-> Pop(c, idx), promo_code |-> code]
           ELSE [result |-> "updated", cart |-> [c EXCEPT ![idx + 1].qty = new_q],
                 promo_code |-> code]

cart_update(s, idx, action, qty_in) ==
  \E r \in {cart_update_fx(session_cart[s], session_promo[s], idx, action, qty_in)} :
      /\ Open
      /\ QtyBounded(r.cart)
      /\ session_cart' = [session_cart EXCEPT ![s] = r.cart]
      /\ session_promo' = [session_promo EXCEPT ![s] = r.promo_code]
      /\ Reply("cart_update", s, r.result)
      /\ UNCHANGED <<menu_json, fs, inflight, promos, orders, site_cart, today>>

\* -------------------------------------------------------------- cart_clear
\* cart_clear without set_promo_code(None)
cart_clear_fx_keep(c, code) == [result |-> "cleared", cart |-> <<>>, promo_code |-> code]

cart_clear_fx(c, code) == [result |-> "cleared", cart |-> <<>>, promo_code |-> NoCode]

cart_clear(s) ==
  \E r \in {cart_clear_fx(session_cart[s], session_promo[s])} :
      /\ Open
      /\ session_cart' = [session_cart EXCEPT ![s] = r.cart]
      /\ session_promo' = [session_promo EXCEPT ![s] = r.promo_code]
      /\ Reply("cart_clear", s, r.result)
      /\ UNCHANGED <<menu_json, fs, inflight, promos, orders, site_cart, today>>

\* ------------------------------------------------------------------- /cart
\* GET /cart with the delivery fee taken on the subtotal before the discount
cart_page_fx_before(c, code, data, cfg, now) ==
  LET subtotal == calc_subtotal(c)
      promo_state == get_applied_promo(code, data, subtotal, now)
      discount == promo_state.discount
      subtotal_after == Max(0, subtotal - discount)
      delivery == compute_shipping(subtotal, cfg)
  IN  [result |-> "shown", promo_code |-> promo_state.stored,
       view |-> [subtotal |-> subtotal, discount |-> discount,
                 subtotal_after |-> subtotal_after, delivery |-> delivery,
                 pickup_discount |-> 0, total |-> subtotal_after + delivery,
                 status |-> promo_state.status, code |-> promo_state.code,
                 method |-> "", payment |-> "",
                 change |-> [kind |-> "none", v |-> 0]]]

\* the numbers GET /cart renders, and the promo code the session keeps
cart_page_fx(c, code, data, cfg, now) ==
  LET subtotal == calc_subtotal(c)
      promo_state == get_applied_promo(code, data, subtotal, now)
      discount == promo_state.discount
      subtotal_after == Max(0, subtotal - discount)
      delivery == compute_shipping(subtotal_after, cfg)
  IN  [result |-> "shown", promo_code |-> promo_state.stored,
       view |-> [subtotal |-> subtotal, discount |-> discount,
                 subtotal_after |-> subtotal_after, delivery |-> delivery,
                 pickup_discount |-> 0, total |-> subtotal_after + delivery,
                 status |-> promo_state.status, code |-> promo_state.code,
                 method |-> "", payment |-> "",
                 change |-> [kind |-> "none", v |-> 0]]]

cart_page(s) ==
  \E r \in {cart_page_fx(session_cart[s], session_promo[s], promos, site_cart, today)} :
      /\ Open
      /\ session_promo' = [session_promo EXCEPT ![s] = r.promo_code]
      /\ Reply("cart", s, r.result)
      /\ UNCHANGED <<menu_json, fs, inflight, session_cart, promos, orders, site_cart, today>>

\* ---------------------------------------------------------- api_cart_count
\* the JSON GET /api/cart_count answers for a cart
api_cart_count_fx(c) == [result |-> calc_cart_count(c)]

api_cart_count(s) ==
  \E r \in {api_cart_count_fx(session_cart[s])} :
      /\ Open
      /\ Reply("api_cart_count", s, r.result)
      /\ UNCHANGED <<menu_json, fs, inflight, session_cart, session_promo, promos, orders, site_cart,
                     today>>

\* -------------------------------------------------------- cart_apply_promo
\* <<action, code>> of the promo form
PromoRequests ==
  {<<"clear", "">>, <<"apply", "">>, <<"apply", "save10">>, <<"apply", "FIX">>,
   <<"apply", "nope">>}

cart_apply_promo_fx(c, stored, data, now, action, code_in) ==
  LET code == Upper(code_in)
      subtotal == calc_subtotal(c)
      list == load_promocodes(data)
      k == FindPromo(list, code)
      status == _promo_status(list[k], subtotal, now)
  IN  IF action = "clear" THEN [result |-> "promo_cleared", promo_code |-> NoCode]
      ELSE IF code_in = "" THEN [result |-> "no_code", promo_code |-> stored]
      ELSE IF k = 0 THEN [result |-> "invalid", promo_code |-> NoCode]
      ELSE IF status \in {"inactive", "expired", "limit"}
      THEN [result |-> status, promo_code |-> NoCode]
      ELSE [result |-> status, promo_code |-> code]

cart_apply_promo(s, action, code_in) ==
  \E r \in {cart_apply_promo_fx(session_cart[s], session_promo[s], promos, today,
                               action, code_in)} :
      /\ Open
      /\ session_promo' = [session_promo EXCEPT ![s] = r.promo_code]
      /\ Reply("cart_apply_promo", s, r.result)
      /\ UNCHANGED <<menu_json, fs, inflight, session_cart, promos, orders, site_cart, today>>

\* ------------------------------------------------------------ order_submit
FullCustomer == [name |-> "Ann", phone |-> "555", address |-> "Main St"]
NoChange == [kind |-> "empty", v |-> 0]
\* the checkout forms the model posts: <<delivery_method, customer,
\* payment_method, change_from>>; change_from is absent ("empty"), not a
\* number ("text"), the text "nan", or a number
OrderForms ==
  {<<"delivery", FullCustomer, "card", NoChange>>,
   <<"pickup", FullCustomer, "card", NoChange>>,
   <<"", FullCustomer, "", NoChange>>,
   <<"delivery", FullCustomer, "cash", NoChange>>,
   <<"delivery", FullCustomer, "cash", [kind |-> "text", v |-> 0]>>,
   <<"delivery", FullCustomer, "cash", [kind |-> "nan", v |-> 0]>>,
   <<"delivery", FullCustomer, "cash", [kind |-> "num", v |-> 800]>>,
   <<"pickup", [FullCustomer EXCEPT !.address = ""], "cash", [kind |-> "num", v |-> 800]>>,
   <<"drone", FullCustomer, "card", NoChange>>,
   <<"delivery", [FullCustomer EXCEPT !.name = ""], "card", NoChange>>,
   <<"pickup", [FullCustomer EXCEPT !.phone = ""], "card", NoChange>>,
   <<"delivery", [FullCustomer EXCEPT !.address = ""], "card", NoChange>>}

\* float(change_raw.replace(",", ".")), -1.0 when that raises
ParseChange(raw) ==
  IF raw.kind = "num" THEN [kind |-> "num", v |-> Money(raw.v)]
  ELSE IF raw.kind = "nan" THEN [kind |-> "nan", v |-> 0]
  ELSE [kind |-> "num", v |-> Money(-1)]

\* a < b on floats: every comparison with nan is False
FloatLess(a, b) == a.kind = "num" /\ a.v < b

\* f"{change_from_val:.2f}"
FmtChange(a) == IF a.kind = "num" THEN [kind |-> "num", v |-> Fmt2(a.v)] ELSE a

\* a line of the Telegram message that is printed only under a condition
Line(shown, v) == [shown |-> shown, v |-> IF shown THEN Fmt2(v) ELSE 0]

\* the amounts and labels _format_order_for_tg puts into the message text
_format_order_for_tg(customer, c, subtotal, delivery, total, discount, promo_code, payment_method, change_from, delivery_method, pickup_discount, pickup_discount_pct) ==
  LET dm == IF delivery_method = "pickup" THEN "pickup" ELSE "delivery"
      subtotal_after == Max(0, subtotal - discount)
  IN  [name |-> customer.name, phone |-> customer.phone,
       address |-> IF dm = "delivery" THEN customer.address ELSE "",
       method |-> dm,
       payment |-> IF dm = "delivery" THEN payment_method ELSE "",
       change |-> IF dm = "delivery" /\ payment_method = "cash"
                     /\ change_from.kind # "none"
                  THEN FmtChange(change_from) ELSE [kind |-> "none", v |-> 0],
       cart |-> [k \in DOMAIN c |->
                   [name |-> c[k].name, variant |-> c[k].variant, qty |-> c[k].qty,
                    line_total |-> Fmt2(Money(c[k].unit_price) * c[k].qty)]],
       subtotal |-> Fmt2(subtotal),
       discount |-> Line(discount > 0, discount),
       promo_code |-> IF discount > 0 THEN promo_code ELSE "",
       subtotal_after |-> Line(discount > 0, subtotal_after),
       pickup_discount |-> Line(pickup_discount > 0, pickup_discount),
       delivery |-> Line(dm = "delivery", delivery),
       total |-> Fmt2(total)]

NoMsg == [total |-> -1]

\* an order log that gets every row twice
_append_order_row_twice(log, row) == Append(Append(log, row), row)

\* ---- data/orders.csv as text: a header line and lines of cells
\* a value of None in a row
NoValue == [none |-> TRUE, s |-> ""]

\* a value that is a string
Str(s) == [none |-> FALSE, s |-> s]

\* what csv.writer puts in a cell: None becomes the empty string
CsvText(v) == IF v.none THEN "" ELSE v.s

Has(seq, x) == \E i \in DOMAIN seq : seq[i] = x

\* list(row.keys()) of a dict given as its (key, value) pairs in order
Keys(row) == [i \in DOMAIN row |-> row[i][1]]

\* csv.DictWriter.writerow: one cell per fieldname, "" for a key not in the dict
WriteRow(fieldnames, row) ==
  [j \in DOMAIN fieldnames |->
     IF Has(Keys(row), fieldnames[j])
     THEN CsvText(row[CHOOSE i \in DOMAIN row : row[i][1] = fieldnames[j]][2])
     ELSE ""]

\* csv.DictReader: a line of cells becomes a dict keyed by the header
ReadRow(existing_fields, cells) ==
  [i \in DOMAIN existing_fields |->
     <<existing_fields[i], IF i <= Len(cells) THEN Str(cells[i]) ELSE NoValue>>]

NoFile == [exists |-> FALSE, header |-> <<>>, rows |-> <<>>]

\* _append_order_row that, when the row brings new columns, writes the
\* row's own columns first
_append_order_row_csv_new_first(file, row) ==
  LET keys == Keys(row)
      existing_fields == IF file.exists THEN file.header ELSE <<>>
      missing == SelectSeq(keys, LAMBDA k : ~Has(existing_fields, k))
  IN  IF file.exists /\ missing # <<>> /\ existing_fields # <<>>
      THEN LET fieldnames ==
                 keys \o SelectSeq(existing_fields, LAMBDA k : ~Has(keys, k)) IN
           [exists |-> TRUE, header |-> fieldnames,
            rows |-> [k \in DOMAIN file.rows |->
                        WriteRow(fieldnames, ReadRow(existing_fields, file.rows[k]))]
                     \o <<WriteRow(fieldnames, row)>>]
      ELSE IF file.exists /\ existing_fields # <<>>
      THEN [file EXCEPT !.rows = Append(@, WriteRow(existing_fields, row))]
      ELSE [exists |-> TRUE, header |-> keys,
            rows |-> Append(file.rows, WriteRow(keys, row))]

\* data/orders.csv after _append_order_row(row), cell by cell
_append_order_row_csv(file, row) ==
  LET keys == Keys(row)
      existing_fields == IF file.exists THEN file.header ELSE <<>>
      missing == SelectSeq(keys, LAMBDA k : ~Has(existing_fields, k))
  IN  IF file.exists /\ missing # <<>> /\ existing_fields # <<>>
      THEN \* header and all rows are written anew, then the new row
           LET fieldnames == existing_fields \o missing IN
           [exists |-> TRUE, header |-> fieldnames,
            rows |-> [k \in DOMAIN file.rows |->
                        WriteRow(fieldnames, ReadRow(existing_fields, file.rows[k]))]
                     \o <<WriteRow(fieldnames, row)>>]
      ELSE IF file.exists /\ existing_fields # <<>>
      THEN [file EXCEPT !.rows = Append(@, WriteRow(existing_fields, row))]
      ELSE \* no file, or a file without a header line
           [exists |-> TRUE, header |-> keys,
            rows |-> Append(file.rows, WriteRow(keys, row))]

\* data/orders.csv after _append_order_row(row)
_append_order_row(log, row) == Append(log, row)

\* order pricing that forgets to take the pickup discount off the total
order_pricing_no_pickup(delivery_method, subtotal_after, cfg) ==
  IF delivery_method = "delivery"
  THEN LET delivery == compute_shipping(subtotal_after, cfg) IN
       [delivery |-> delivery, pickup_discount |-> 0,
        total |-> subtotal_after + delivery]
  ELSE LET pickup_discount == Max(0, PctOf(subtotal_after, cfg.pickup_discount)) IN
       [delivery |-> 0, pickup_discount |-> pickup_discount,
        total |-> Max(0, subtotal_after) + 0]

\* delivery fee, pickup discount and total of an order
order_pricing(delivery_method, subtotal_after, cfg) ==
  IF delivery_method = "delivery"
  THEN LET delivery == compute_shipping(subtotal_after, cfg) IN
       [delivery |-> delivery, pickup_discount |-> 0,
        total |-> subtotal_after + delivery]
  ELSE LET pickup_discount == Max(0, PctOf(subtotal_after, cfg.pickup_discount)) IN
       [delivery |-> 0, pickup_discount |-> pickup_discount,
        total |-> Max(0, subtotal_after - pickup_discount) + 0]

\* a rejection that also forgets the stored promo code
order_rejected_clears_promo(why, c, stored, data, log) ==
  [result |-> why, cart |-> c, promo_code |-> NoCode, promos |-> data,
   orders |-> log, view |-> NoView, msg |-> NoMsg]

\* order_submit returning before it prices the order: the flash message and
\* the redirect to the cart
order_rejected(why, c, stored, data, log) ==
  [result |-> why, cart |-> c, promo_code |-> stored, promos |-> data,
   orders |-> log, view |-> NoView, msg |-> NoMsg]

\* what POST /order does: the outcome, the session's cart and promo code, the
\* promo document, the order log, and the numbers it computed
order_submit_fx(c, stored, data, log, cfg, now, dm_in, customer, pm_in, change_raw) ==
  LET delivery_method == IF dm_in = "" THEN "delivery" ELSE dm_in
      payment_method == IF pm_in \in {"card", "cash"} THEN pm_in ELSE "card"
      subtotal == calc_subtotal(c)
      promo_state == get_applied_promo(stored, data, subtotal, now)
      discount == promo_state.discount
      subtotal_after == Max(0, subtotal - discount)
      pickup_pct == cfg.pickup_discount
      pricing == order_pricing(delivery_method, subtotal_after, cfg)
      delivery == pricing.delivery
      pickup_discount == pricing.pickup_discount
      total == pricing.total
      change_from_val == IF payment_method = "cash" THEN ParseChange(change_raw)
                         ELSE [kind |-> "none", v |-> 0]
      promo_code == IF promo_state.found THEN promo_state.promo.code ELSE ""
      promo_status == IF promo_state.found THEN promo_state.status ELSE ""
      view == [subtotal |-> subtotal, discount |-> discount,
               subtotal_after |-> subtotal_after, delivery |-> delivery,
               pickup_discount |-> pickup_discount, total |-> total,
               status |-> promo_state.status, code |-> promo_state.code,
               method |-> delivery_method, payment |-> payment_method,
               change |-> change_from_val]
      row == [created_at |-> now,
              customer |-> IF delivery_method = "pickup"
                           THEN [customer EXCEPT !.address = ""] ELSE customer,
              cart |-> c,
              subtotal |-> Fmt2(subtotal), discount |-> Fmt2(discount),
              discounted_subtotal |-> Fmt2(subtotal_after),
              delivery |-> Fmt2(delivery), total |-> Fmt2(total),
              promo_code |-> promo_code, promo_status |-> promo_status,
              payment_method |-> payment_method,
              change_from |-> FmtChange(change_from_val),
              delivery_method |-> delivery_method,
              pickup_discount_pct |-> Fmt2(Money(pickup_pct)),
              pickup_discount_value |-> Fmt2(pickup_discount)]
      msg == _format_order_for_tg(row.customer, c, subtotal, delivery, total,
                                  discount, promo_code, payment_method,
                                  change_from_val, delivery_method,
                                  pickup_discount, pickup_pct)
      rejected(why) == order_rejected(why, c, stored, data, log)
      \* rejected after get_applied_promo has run
      refused(why) == [result |-> why, cart |-> c, promo_code |-> promo_state.stored,
                       promos |-> data, orders |-> log, view |-> view,
                       msg |-> NoMsg]
  IN  IF c = <<>> THEN rejected("empty_cart")
      ELSE IF delivery_method \notin {"delivery", "pickup"} THEN rejected("bad_method")
      ELSE IF customer.name = "" \/ customer.phone = "" THEN rejected("need_name_phone")
      ELSE IF delivery_method = "delivery" /\ customer.address = ""
      THEN rejected("need_address")
      ELSE IF payment_method = "cash" /\ change_raw.kind = "empty"
      THEN refused("need_change")
      ELSE IF payment_method = "cash" /\ FloatLess(change_from_val, total)
      THEN refused("change_too_small")
      ELSE [result |-> "ok", cart |-> <<>>, promo_code |-> NoCode,
            promos |-> IF promo_code # "" /\ discount > 0
                       THEN _increment_promo_usage(data, promo_code) ELSE data,
            orders |-> _append_order_row(log, row), view |-> view, msg |-> msg]

\* how the notification of an accepted order ends: _tg_send returned True,
\* _tg_send returned False (disabled, HTTP error, network error), or an
\* exception was raised inside the try block
TgOutcomes == {"sent", "not_sent", "raises"}

\* a notification whose exception leaves the handler: the request ends as an
\* error before set_cart([])
order_notify_propagates(r, tg) ==
  IF r.result # "ok" THEN r @@ [tg |-> "none"]
  ELSE IF tg = "raises"
  THEN [r EXCEPT !.result = "error", !.cart = r.orders[Len(r.orders)].cart]
       @@ [tg |-> tg]
  ELSE r @@ [tg |-> tg]

\* the end of order_submit: the notification, whose failure is logged and
\* swallowed, then set_cart([]) and the success reply
order_notify(r, tg) ==
  IF r.result # "ok" THEN r @@ [tg |-> "none"]
  ELSE r @@ [tg |-> tg]

order_submit(s, dm_in, customer, pm_in, change_raw) ==
  \E tg \in TgOutcomes :
    \E r \in {order_notify(order_submit_fx(session_cart[s], session_promo[s], promos,
                                          orders, site_cart, today, dm_in, customer,
                                          pm_in, change_raw), tg)} :
      /\ Open
      /\ session_cart' = [session_cart EXCEPT ![s] = r.cart]
      /\ session_promo' = [session_promo EXCEPT ![s] = r.promo_code]
      /\ promos' = r.promos
      /\ orders' = r.orders
      /\ last' = [op |-> "order_submit", s |-> s, result |-> r.result,
                  had |-> session_promo[s], tg |-> r.tg]
      /\ UNCHANGED <<menu_json, fs, inflight, site_cart, today>>

\* ------------------------------------------------------------ admin_promos
\* the create / edit forms the admin posts
PromoForms ==
  {[code |-> "save10", type |-> "percent", value |-> 10, min_subtotal |-> 500,
    expires_at |-> NoDate, max_uses |-> 0, active |-> TRUE],
   [code |-> "FIX", type |-> "fixed", value |-> 400, min_subtotal |-> 0,
    expires_at |-> 0, max_uses |-> 1, active |-> TRUE],
   [code |-> "FIX", type |-> "amount", value |-> 0, min_subtotal |-> 0,
    expires_at |-> NoDate, max_uses |-> 0, active |-> TRUE]}
\* <<action, code>> of the promo admin's row buttons
AdminRequests ==
  {<<"delete", "SAVE10">>, <<"delete", "FIX">>, <<"toggle", "SAVE10">>,
   <<"toggle", "fix">>, <<"toggle", "NOPE">>, <<"reset_used", "SAVE10">>,
   <<"reset_used", "FIX">>}

Without(list, code) == SelectSeq(list, LAMBDA p : p.code # code)

\* the promo document after POST /admin/promos with action=delete
admin_promos_delete(data, code_in) ==
  save_promocodes(Without(load_promocodes(data), Upper(code_in)))

\* ... with action=toggle
admin_promos_toggle(data, code_in) ==
  LET list == load_promocodes(data)
      k == FindPromo(list, Upper(code_in))
  IN  IF k = 0 THEN data
      ELSE save_promocodes([list EXCEPT ![k].active = ~list[k].active])

\* ... with action=reset_used
admin_promos_reset_used(data, code_in) ==
  LET list == load_promocodes(data)
      k == FindPromo(list, Upper(code_in))
  IN  IF k = 0 THEN data
      ELSE save_promocodes([list EXCEPT ![k].used = 0])

\* ... with action=create (create or replace)
admin_promos_upsert(data, form) ==
  LET code == Upper(form.code)
      new_item == [code |-> code,
                   type |-> IF form.type \in {"fixed", "amount"} THEN "fixed"
                            ELSE "percent",
                   value |-> Abs(form.value),
                   min_subtotal |-> Max(0, form.min_subtotal),
                   expires_at |-> form.expires_at,
                   max_uses |-> Max(0, form.max_uses),
                   used |-> 0,
                   active |-> form.active]
  IN  IF code = "" THEN data
      ELSE save_promocodes(Append(Without(load_promocodes(data), code), new_item))

admin_promos(action, code_in, form) ==
  /\ Open
  /\ promos' = CASE action = "delete" -> admin_promos_delete(promos, code_in)
                 [] action = "toggle" -> admin_promos_toggle(promos, code_in)
                 [] action = "reset_used" -> admin_promos_reset_used(promos, code_in)
                 [] OTHER -> admin_promos_upsert(promos, form)
  /\ Reply("admin_promos", "", action)
  /\ UNCHANGED <<menu_json, fs, inflight, session_cart, session_promo, orders, site_cart, today>>

\* ---------------------------------------------------------- admin_settings
\* the delivery settings forms the admin posts
SettingsForms ==
  {[delivery_price |-> 200, free_from |-> 1500, pickup_discount |-> 0],
   [delivery_price |-> 200, free_from |-> 1500, pickup_discount |-> 5],
   [delivery_price |-> -500, free_from |-> 1500, pickup_discount |-> 5],
   [delivery_price |-> 200, free_from |-> 1500, pickup_discount |-> 150]}

admin_settings_fx(cfg, form) ==
  [delivery_price |-> form.delivery_price, free_from |-> form.free_from,
   pickup_discount |-> form.pickup_discount]

admin_settings(form) ==
  /\ Open
  /\ site_cart' = admin_settings_fx(site_cart, form)
  /\ Reply("admin_settings", "", "saved")
  /\ UNCHANGED <<menu_json, fs, inflight, session_cart, session_promo, promos, orders, today>>

\* ---------------------------------------------------------- admin_menu_edit
\* the catalog with the price of Ale raised
MenuRepriced == [Menu0 EXCEPT !.Beer.items[1].price = Num(350)]

\* the catalog with the Beer category cut down to Ale
MenuShort == [Menu0 EXCEPT !.Beer.items = <<Ale>>]

\* the menu_json field of the admin's form: a JSON object, or text that
\* json.loads rejects or that is not an object
MenuForms ==
  {[ok |-> TRUE, data |-> Menu0], [ok |-> TRUE, data |-> MenuRepriced],
   [ok |-> TRUE, data |-> MenuShort], [ok |-> FALSE, data |-> Menu0]}

admin_menu_edit_fx(menu, form) ==
  IF ~form.ok THEN [result |-> "json_error", menu |-> menu]
  ELSE [result |-> "saved", menu |-> form.data]

admin_menu_edit(form) ==
  \E r \in {admin_menu_edit_fx(menu_json, form)} :
      /\ Open
      /\ menu_json' = r.menu
      /\ Reply("admin_menu_edit", "", r.result)
      /\ UNCHANGED <<fs, inflight, session_cart, session_promo, promos, orders,
                     site_cart, today>>

\* ------------------------------------------------------------------- clock
\* midnight passes: datetime.now().date() moves to the next day
DayPasses ==
  /\ Open
  /\ today < MaxDay
  /\ today' = today + 1
  /\ Reply("midnight", "", "")
  /\ UNCHANGED <<menu_json, fs, inflight, session_cart, session_promo, promos, orders, site_cart>>

\* -------------------------------------------------------------------- spec
\* the requests of one customer session
Customer(s) ==
  \/ \E r \in AddRequests : cart_add(s, r[1][1], r[1][2], r[1][3], r[1][4], r[2])
  \/ \E i \in IdxInputs : cart_remove(s, i)
  \/ \E i \in IdxInputs, f \in UpdateForms : cart_update(s, i, f[1], f[2])
  \/ cart_clear(s)
  \/ cart_page(s)
  \/ api_cart_count(s)
  \/ \E r \in PromoRequests : cart_apply_promo(s, r[1], r[2])
  \/ \E f \in OrderForms : order_submit(s, f[1], f[2], f[3], f[4])

\* the admin's requests on the promo page
PromoAdmin ==
  \/ \E r \in AdminRequests : admin_promos(r[1], r[2], CHOOSE f \in PromoForms : TRUE)
  \/ \E f \in PromoForms : admin_promos("create", f.code, f)

Next ==
  \/ \E s \in Clients : Customer(s)
  \/ PromoAdmin
  \/ DayPasses

Spec == Init /\ [][Next]_vars

\* ---------------------------------------------------------- pricing spec
\* the shop with one promo code on offer and the admin changing the delivery
\* settings
SaveForm == CHOOSE f \in PromoForms : f.code = "save10"

NextPricing ==
  \/ \E s \in Clients : Customer(s)
  \/ \E f \in SettingsForms : admin_settings(f)
  \/ admin_promos("create", SaveForm.code, SaveForm)

SpecPricing == Init /\ [][NextPricing]_vars

\* ---- the cart requests of one client while the admin edits the catalog
NextCart ==
  \/ \E s \in Clients :
       \/ \E r \in AddRequests : cart_add(s, r[1][1], r[1][2], r[1][3], r[1][4], r[2])
       \/ \E i \in IdxInputs : cart_remove(s, i)
       \/ \E i \in IdxInputs, f \in UpdateForms : cart_update(s, i, f[1], f[2])
       \/ cart_clear(s)
  \/ \E f \in MenuForms : admin_menu_edit(f)

SpecCart == Init /\ [][NextCart]_vars

\* ---- save_promocodes and load_promocodes as steps on the files
\* the inodes some path or some open handle still refers to
Referenced(f) == {f.store, f.tmp} \cup {f.w[x].h : x \in Sessions}

\* an inode nothing refers to is gone
Reclaim(f) ==
  [f EXCEPT !.data = [i \in Inodes |-> IF i \in Referenced(f) THEN f.data[i]
                                       ELSE <<>>]]

FreeInode(f) ==
  CHOOSE i \in Inodes \ Referenced(f) :
    \A j \in Inodes \ Referenced(f) : i <= j

\* write(chunk) at offset pos of a file: the chunk lands at its offset, and
\* what lies between the old end of the file and the offset is a hole
WriteAt(content, pos, chunk) ==
  [k \in 1..Max(Len(content), pos) |->
     IF k = pos THEN chunk
     ELSE IF k <= Len(content) THEN content[k]
     ELSE Hole]

\* open(tmp, "w"): creates promocodes.tmp, or truncates the file that is
\* there, which may be the one another call is writing
save_promocodes_open(w) ==
  /\ fs.w[w].pc = "idle"
  /\ LET id == IF fs.tmp # 0 THEN fs.tmp ELSE FreeInode(fs) IN
     fs' = [fs EXCEPT !.tmp = id, !.data[id] = <<>>,
                      !.w[w] = [pc |-> "open", h |-> id, n |-> 0]]
  /\ Reply("save_promocodes_open", w, "opened")
  /\ UNCHANGED <<menu_json, inflight, session_cart, session_promo, promos, orders,
                 site_cart, today>>

\* json.dump: the next piece of the document goes to the open file
save_promocodes_write(w) ==
  /\ fs.w[w].pc = "open"
  /\ fs.w[w].n < Len(Doc(w))
  /\ LET n == fs.w[w].n + 1
         h == fs.w[w].h IN
     fs' = [fs EXCEPT !.data[h] = WriteAt(fs.data[h], n, Doc(w)[n]),
                      !.w[w].n = n]
  /\ Reply("save_promocodes_write", w, "written")
  /\ UNCHANGED <<menu_json, inflight, session_cart, session_promo, promos, orders,
                 site_cart, today>>

\* the file is closed and os.replace(tmp, PROMO_CODES_PATH) renames whatever
\* promocodes.tmp names now over the store; FileNotFoundError if another call
\* has renamed it away
save_promocodes_replace(w) ==
  /\ fs.w[w].pc = "open"
  /\ fs.w[w].n = Len(Doc(w))
  /\ IF fs.tmp = 0
     THEN /\ fs' = Reclaim([fs EXCEPT !.w[w] = NotWriting])
          /\ Reply("save_promocodes_replace", w, "raises")
     ELSE /\ fs' = Reclaim([fs EXCEPT !.store = fs.tmp, !.tmp = 0,
                                      !.w[w] = NotWriting])
          /\ Reply("save_promocodes_replace", w, "replaced")
  /\ UNCHANGED <<menu_json, inflight, session_cart, session_promo, promos, orders,
                 site_cart, today>>

\* the text in a file is one whole document
WholeDocument(content) == \E w \in Sessions \cup {"init"} : content = Doc(w)

\* load_promocodes reads the file behind PROMO_CODES_PATH: a whole document
\* is parsed, anything else makes json.load raise and the call return []
load_promocodes_file(f) ==
  IF WholeDocument(f.data[f.store]) THEN "whole" ELSE "partial"

load_promocodes_read(s) ==
  /\ Reply("load_promocodes", s, load_promocodes_file(fs))
  /\ UNCHANGED <<menu_json, fs, inflight, session_cart, session_promo, promos,
                 orders, site_cart, today>>

NextFile ==
  \/ \E w \in Sessions :
       \/ save_promocodes_open(w)
       \/ save_promocodes_write(w)
       \/ save_promocodes_replace(w)
  \/ \E s \in Sessions : load_promocodes_read(s)

SpecFile == Init /\ [][NextFile]_vars

\* ------------------------------------------------------- concurrent orders
\* Two sessions whose POST /order requests are served by different threads or
\* workers: nothing in order_submit or _increment_promo_usage holds a lock, so
\* the load and the save of the promo document are separate steps.

\* the checkout forms of the concurrent sessions
ConcurrentForms == {f \in OrderForms : f[2] = FullCustomer /\ f[3] = "card"
                                       /\ f[1] \in {"delivery", "pickup"}}

\* the store after the admin has created the promo code SAVE10
InitConcurrent ==
  /\ session_cart = [s \in Sessions |-> <<>>]
  /\ session_promo = [s \in Sessions |-> NoCode]
  /\ promos = admin_promos_upsert(<<>>, SaveForm)
  /\ orders = <<>>
  /\ site_cart = DefaultCartCfg
  /\ today = 0
  /\ last = [op |-> "start", s |-> "", result |-> "", had |-> NoCode, tg |-> "none"]
  /\ inflight = [s \in Sessions |-> Idle]
  /\ menu_json = Menu0
  /\ fs = FsInit

\* order_submit up to the load_promocodes() call of _increment_promo_usage:
\* the row is on the order log, the promo list is in the request's memory
order_submit_load(s, f) ==
  \E r \in {order_submit_fx(session_cart[s], session_promo[s], promos, orders,
                           site_cart, today, f[1], f[2], f[3], f[4])} :
      /\ inflight[s] = Idle
      /\ Len(orders) <= MaxOrders
      /\ r.result = "ok"
      /\ orders' = r.orders
      /\ inflight' = [inflight EXCEPT ![s] =
                        IF r.view.discount > 0 /\ r.orders[Len(r.orders)].promo_code # ""
                        THEN [pc |-> "loaded",
                              code |-> r.orders[Len(r.orders)].promo_code,
                              list |-> load_promocodes(promos)]
                        ELSE [pc |-> "loaded", code |-> "", list |-> <<>>]]
      /\ last' = [op |-> "order_submit_load", s |-> s, result |-> "",
                  had |-> session_promo[s], tg |-> "none"]
      /\ UNCHANGED <<menu_json, fs, session_cart, session_promo, promos, site_cart, today>>

\* the rest of order_submit: the save of the incremented list, then
\* set_promo_code(None), the notification and set_cart([])
order_submit_save(s) ==
  \E tg \in TgOutcomes :
      /\ inflight[s].pc = "loaded"
      /\ promos' = IncrementLoaded(inflight[s].list, promos, inflight[s].code)
      /\ session_promo' = [session_promo EXCEPT ![s] = NoCode]
      /\ session_cart' = [session_cart EXCEPT ![s] = <<>>]
      /\ inflight' = [inflight EXCEPT ![s] = Idle]
      /\ last' = [op |-> "order_submit", s |-> s, result |-> "ok",
                  had |-> session_promo[s], tg |-> tg]
      /\ UNCHANGED <<menu_json, fs, orders, site_cart, today>>

NextConcurrent ==
  \/ \E s \in Sessions, r \in AddRequests : cart_add(s, r[1][1], r[1][2], r[1][3], r[1][4], r[2])
  \/ \E s \in Sessions : cart_apply_promo(s, "apply", SaveForm.code)
  \/ \E s \in Sessions, f \in ConcurrentForms : order_submit_load(s, f)
  \/ \E s \in Sessions : order_submit_save(s)

SpecConcurrent == InitConcurrent /\ [][NextConcurrent]_vars

\* ------------------------------------------------------- the capped promo
\* Both sessions shop with the promo code FIX, which may be used once; the
\* requests are served one at a time and the admin leaves the promo alone.
CapForm == CHOOSE f \in PromoForms : f.code = "FIX" /\ f.max_uses = 1

InitCap ==
  /\ session_cart = [s \in Sessions |-> <<>>]
  /\ session_promo = [s \in Sessions |-> NoCode]
  /\ promos = admin_promos_upsert(<<>>, CapForm)
  /\ orders = <<>>
  /\ site_cart = DefaultCartCfg
  /\ today = 0
  /\ last = [op |-> "start", s |-> "", result |-> "", had |-> NoCode, tg |-> "none"]
  /\ inflight = [s \in Sessions |-> Idle]
  /\ menu_json = Menu0
  /\ fs = FsInit

\* POST /order served while the order log has room for one more row than in
\* the other specifications
order_submit_serial(s, dm_in, customer, pm_in, change_raw) ==
  \E tg \in TgOutcomes :
    \E r \in {order_notify(order_submit_fx(session_cart[s], session_promo[s], promos,
                                          orders, site_cart, today, dm_in, customer,
                                          pm_in, change_raw), tg)} :
      /\ Len(orders) <= MaxOrders
      /\ session_cart' = [session_cart EXCEPT ![s] = r.cart]
      /\ session_promo' = [session_promo EXCEPT ![s] = r.promo_code]
      /\ promos' = r.promos
      /\ orders' = r.orders
      /\ last' = [op |-> "order_submit", s |-> s, result |-> r.result,
                  had |-> session_promo[s], tg |-> r.tg]
      /\ UNCHANGED <<menu_json, fs, inflight, site_cart, today>>

NextCap ==
  \/ \E s \in Sessions, q \in QtyInputs : cart_add(s, "Beer", "", 0, -1, q)
  \/ \E s \in Sessions : cart_apply_promo(s, "apply", CapForm.code)
  \/ \E s \in Sessions : cart_page(s)
  \/ \E s \in Sessions, f \in OrderForms : order_submit_serial(s, f[1], f[2], f[3], f[4])

SpecCap == InitCap /\ [][NextCap]_vars

\* ------------------------------------------------------ the pure functions
\* _promo_status and _calc_promo_discount applied to promo records and
\* subtotals drawn from bounded sets
PurePromos ==
  [code : {"X"}, type : {"percent", "fixed"}, value : {-10, 0, 10, 150, 400},
   min_subtotal : {0, 500}, expires_at : {NoDate, 0}, max_uses : {0, 1},
   used : {0, 1, 2}, active : BOOLEAN]
PureSubtotals == {Money(0), Money(300), Money(1000)}

\* a record of data/promocodes.json as json.load returns it
RawPromo(code, value) ==
  [code |-> code, type |-> "percent", value |-> value, min_subtotal |-> 0,
   expires_at |-> NoDate, max_uses |-> 0, used |-> 0, active |-> TRUE]

\* the lists load_promocodes reads and save_promocodes is given: up to three
\* records whose codes may be equal after upper-casing, or empty
PureLists ==
  LET recs == {RawPromo(c, v) : c \in {"save10", "SAVE10", "FIX", ""}, v \in {5, 10}}
  IN  UNION {[1..n -> recs] : n \in 0..3}

\* order rows of different releases: two columns, a third one added, the
\* columns in another order, a column left out and a value of None
PureRows ==
  {<< <<"created_at", Str("d1")>>, <<"total", Str("300.00")>> >>,
   << <<"created_at", Str("d2")>>, <<"total", Str("500.00")>>,
      <<"promo_code", Str("SAVE10")>> >>,
   << <<"total", Str("700.00")>>, <<"created_at", Str("d3")>> >>,
   << <<"ua", NoValue>>, <<"created_at", Str("d4")>> >>}

\* the order logs that one or two calls leave behind
PureFiles ==
  LET one == {_append_order_row_csv(NoFile, r) : r \in PureRows} IN
  {NoFile} \cup one
           \cup {_append_order_row_csv(f, r) : f \in one, r \in PureRows}

InitPure ==
  /\ session_cart = [s \in Sessions |-> <<>>]
  /\ session_promo = [s \in Sessions |-> NoCode]
  /\ promos = <<>>
  /\ orders = <<>>
  /\ site_cart = DefaultCartCfg
  /\ today \in 0..MaxDay
  /\ inflight = [s \in Sessions |-> Idle]
  /\ menu_json = Menu0
  /\ fs = FsInit
  /\ \/ \E p \in PurePromos, sub \in PureSubtotals :
          last = [op |-> "input", s |-> "", had |-> NoCode,
                  result |-> [promo |-> p, subtotal |-> sub]]
     \/ \E l \in PureLists :
          last = [op |-> "input_list", s |-> "", had |-> NoCode,
                  result |-> [items |-> l]]
     \/ \E f \in PureFiles, r \in PureRows :
          last = [op |-> "input_file", s |-> "", had |-> NoCode,
                  result |-> [file |-> f, row |-> r]]

ApplyPromoStatus ==
  /\ last.op = "input"
  /\ last' = [op |-> "_promo_status", s |-> "", had |-> NoCode,
              result |-> [promo |-> last.result.promo,
                          subtotal |-> last.result.subtotal,
                          out |-> _promo_status(last.result.promo,
                                                last.result.subtotal, today)]]
  /\ UNCHANGED <<menu_json, fs, inflight, session_cart, session_promo, promos, orders, site_cart, today>>

ApplyCalcPromoDiscount ==
  /\ last.op = "input"
  /\ last' = [op |-> "_calc_promo_discount", s |-> "", had |-> NoCode,
              result |-> [promo |-> last.result.promo,
                          subtotal |-> last.result.subtotal,
                          out |-> _calc_promo_discount(last.result.subtotal,
                                                       last.result.promo)]]
  /\ UNCHANGED <<menu_json, fs, inflight, session_cart, session_promo, promos, orders, site_cart, today>>

ApplyLoadPromocodes ==
  /\ last.op = "input_list"
  /\ last' = [op |-> "load_promocodes", s |-> "", had |-> NoCode,
              result |-> [items |-> last.result.items,
                          out |-> load_promocodes(last.result.items)]]
  /\ UNCHANGED <<menu_json, fs, inflight, session_cart, session_promo, promos, orders, site_cart,
                 today>>

ApplySavePromocodes ==
  /\ last.op = "input_list"
  /\ last' = [op |-> "save_promocodes", s |-> "", had |-> NoCode,
              result |-> [items |-> last.result.items,
                          out |-> save_promocodes(last.result.items)]]
  /\ UNCHANGED <<menu_json, fs, inflight, session_cart, session_promo, promos, orders, site_cart,
                 today>>

ApplyAppendOrderRow ==
  /\ last.op = "input_file"
  /\ last' = [op |-> "_append_order_row", s |-> "", had |-> NoCode,
              result |-> [file |-> last.result.file, row |-> last.result.row,
                          out |-> _append_order_row_csv(last.result.file,
                                                        last.result.row)]]
  /\ UNCHANGED <<menu_json, fs, inflight, session_cart, session_promo, promos, orders,
                 site_cart, today>>

NextPure ==
  \/ ApplyPromoStatus
  \/ ApplyCalcPromoDiscount
  \/ ApplyLoadPromocodes
  \/ ApplySavePromocodes
  \/ ApplyAppendOrderRow

SpecPure == InitPure /\ [][NextPure]_vars

\* ================================================================= claims
\* the `used` counter a promo document holds for a code, -1 if it has none
UsedOf(data, code) ==
  IF \E k \in DOMAIN data : data[k].code = code
  THEN data[CHOOSE k \in DOMAIN data : data[k].code = code].used
  ELSE -1

AllCodes == {CodeOrder[k] : k \in DOMAIN CodeOrder}

\* what POST /order with form f would do in the current state
OrderNow(s, f) ==
  order_submit_fx(session_cart[s], session_promo[s], promos, orders, site_cart,
                  today, f[1], f[2], f[3], f[4])

\* the subtotal after promo discount of the session's cart in the current state
SubtotalAfterNow(s) ==
  LET subtotal == calc_subtotal(session_cart[s]) IN
  Max(0, subtotal
         - get_applied_promo(session_promo[s], promos, subtotal, today).discount)

\* C1: a successful order whose promo is ok with a discount > 0 adds exactly 1
\* to that promo's used counter and changes no other counter; a successful
\* order with no promo, a pending promo or a zero discount changes none.
C1_UsageIncrementedOnce ==
  \A s \in Clients, f \in OrderForms :
    \A r \in {OrderNow(s, f)} :
      r.result = "ok" =>
        \A c \in AllCodes :
          UsedOf(r.promos, c) =
            UsedOf(promos, c)
            + (IF r.view.status = "ok" /\ r.view.discount > 0 /\ c = r.view.code
               THEN 1 ELSE 0)

\* an order with a discounted promo was accepted; its counter went from 0 to 1
\* while the other promo in the store kept 0
C1_Witness ==
  /\ last.op = "order_submit" /\ last.result = "ok"
  /\ Len(orders) >= 1 /\ Len(promos) = 2
  /\ LET row == orders[Len(orders)] IN
       /\ row.promo_status = "ok" /\ row.discount > 0
       /\ UsedOf(promos, row.promo_code) = 1
       /\ \E c \in AllCodes : c # row.promo_code /\ UsedOf(promos, c) = 0

\* C2: for every subtotal >= 0 and every promo record, the discount is between
\* 0 and the subtotal, and it is 0 when the subtotal or the value is <= 0.
C2_DiscountBounded ==
  last.op = "_calc_promo_discount" =>
    LET r == last.result IN
      /\ 0 <= r.out /\ r.out <= r.subtotal
      /\ (r.subtotal <= 0 \/ r.promo.value <= 0) => r.out = 0

\* a fixed discount larger than the subtotal was capped at the subtotal
C2_Witness ==
  /\ last.op = "_calc_promo_discount"
  /\ last.result.promo.type = "fixed"
  /\ Money(last.result.promo.value) > last.result.subtotal
  /\ last.result.subtotal > 0
  /\ last.result.out = last.result.subtotal

Expired(p, now) == p.expires_at # NoDate /\ now > p.expires_at

AtCap(p) == p.max_uses > 0 /\ p.used >= p.max_uses

\* C3: _promo_status returns the first that matches of inactive, expired,
\* limit, pending, ok.
C3_StatusPrecedence ==
  last.op = "_promo_status" =>
    LET p == last.result.promo
        out == last.result.out
        below == last.result.subtotal < Money(p.min_subtotal)
    IN  /\ ~p.active => out = "inactive"
        /\ (p.active /\ Expired(p, today)) => out = "expired"
        /\ (p.active /\ ~Expired(p, today) /\ AtCap(p)) => out = "limit"
        /\ (p.active /\ ~Expired(p, today) /\ ~AtCap(p) /\ below) => out = "pending"
        /\ (p.active /\ ~Expired(p, today) /\ ~AtCap(p) /\ ~below) => out = "ok"

\* an active promo that is expired, over its cap and below min_subtotal
\* reported expired
C3_Witness ==
  /\ last.op = "_promo_status"
  /\ last.result.promo.active
  /\ Expired(last.result.promo, today)
  /\ AtCap(last.result.promo)
  /\ last.result.subtotal < Money(last.result.promo.min_subtotal)
  /\ last.result.out = "expired"

\* C4: cart_add of an item whose key equals that of a cart line adds the qty
\* to that line and leaves the number of lines unchanged; otherwise it appends
\* one line with the resolved unit price and the added qty.
C4_AddMergesOrAppends ==
  \A s \in Clients, rq \in AddRequests :
    LET c == session_cart[s]
        f == rq[1]
        qty == Max(1, rq[2])
        item == _find_menu_item(f[1], f[2], f[3])
        rv == _resolve_price_variant(item, f[4])
        key == <<f[1], f[2], item.name, rv.label>>
        same == {k \in DOMAIN c : Sku(c[k]) = key}
    IN  (f[1] # "" /\ f[3] >= 0 /\ item.found /\ rv.price.kind = "num") =>
          \A r \in {cart_add_fx(c, session_promo[s], f[1], f[2], f[3], f[4], rq[2])} :
            IF same # {}
            THEN /\ Len(r.cart) = Len(c)
                 /\ \A k \in DOMAIN c :
                      r.cart[k] = IF k \in same
                                  THEN [c[k] EXCEPT !.qty = c[k].qty + qty]
                                  ELSE c[k]
            ELSE r.cart = Append(c, [category |-> f[1], subname |-> f[2],
                                     name |-> item.name, variant |-> rv.label,
                                     unit_price |-> rv.price.v, qty |-> qty])

\* an add was merged into the second of two lines
C4_Witness ==
  /\ last.op = "cart_add" /\ last.result = "merged"
  /\ Len(session_cart[last.s]) = 2
  /\ session_cart[last.s][2].qty = 2
  /\ session_cart[last.s][1].qty = 1

\* C5: cart_update to qty 0 (or dec on a line of qty 1) leaves the session as
\* cart_remove of the same line does: the same lines and the same promo code.
C5_UpdateZeroIsRemove ==
  \A s \in Clients, i \in IdxInputs :
    LET c == session_cart[s]
        code == session_promo[s]
        removed == cart_remove_fx(c, code, i)
        zeroed == cart_update_fx(c, code, i, "set", 0)
        dec == cart_update_fx(c, code, i, "dec", 1)
    IN  i < Len(c) =>
          /\ zeroed.cart = removed.cart /\ zeroed.promo_code = removed.promo_code
          /\ c[i + 1].qty = 1 =>
               (dec.cart = removed.cart /\ dec.promo_code = removed.promo_code)

\* C6: after cart_clear the session has no lines and no promo code; after a
\* cart_remove that removed the last line it has no promo code.
C6_ClearDropsPromo ==
  /\ last.op = "cart_clear" =>
       (session_cart[last.s] = <<>> /\ session_promo[last.s] = NoCode)
  /\ (last.op = "cart_remove" /\ last.result = "removed"
        /\ session_cart[last.s] = <<>>) => session_promo[last.s] = NoCode

\* cart_clear served a session that held a promo code
C6_Witness == last.op = "cart_clear" /\ last.had # NoCode

\* C7: a session whose cart is empty holds no promo code.
C7_EmptyCartNoPromo ==
  \A s \in Sessions : session_cart[s] = <<>> => session_promo[s] = NoCode

\* the fee for delivery of an order worth `after`
FeeOn(after, cfg) ==
  IF after >= Money(cfg.free_from) /\ after > 0 THEN 0 ELSE Money(cfg.delivery_price)

\* C8: for delivery, the cart page and order_submit both take the delivery fee
\* on the subtotal after promo discount, with no pickup discount, and
\* total = subtotal_after + delivery_fee.
C8_DeliveryFeeOnSubtotalAfter ==
  \A s \in Clients :
    LET after == SubtotalAfterNow(s)
        fits(view) == /\ view.subtotal_after = after
                      /\ view.delivery = FeeOn(after, site_cart)
                      /\ view.pickup_discount = 0
                      /\ view.total = after + FeeOn(after, site_cart)
    IN  /\ \A r \in {cart_page_fx(session_cart[s], session_promo[s], promos,
                                  site_cart, today)} : fits(r.view)
        /\ \A f \in OrderForms :
             f[1] \in {"", "delivery"} =>
               \A r \in {OrderNow(s, f)} : r.view # NoView => fits(r.view)

\* a delivery order of subtotal 1000 was recorded with fee 200 and total 1200
\* under free_from 1500 and delivery_price 200
C8_Witness ==
  /\ last.op = "order_submit" /\ last.result = "ok"
  /\ site_cart.free_from = 1500 /\ site_cart.delivery_price = 200
  /\ Len(orders) >= 1
  /\ LET row == orders[Len(orders)] IN
       /\ row.delivery_method = "delivery"
       /\ row.subtotal = 100000 /\ row.discount = 0
       /\ row.delivery = 20000 /\ row.total = 120000

\* C9: for pickup, order_submit takes no delivery fee, a pickup discount of
\* subtotal_after * pickup_discount / 100 floored at 0, and
\* total = max(0, subtotal_after - pickup_discount).
C9_PickupPricing ==
  \A s \in Clients, f \in OrderForms :
    f[1] = "pickup" =>
      \A r \in {OrderNow(s, f)} :
        r.view # NoView =>
          LET after == SubtotalAfterNow(s) IN
            /\ r.view.subtotal_after = after
            /\ r.view.delivery = 0
            /\ after % 100 = 0
            /\ r.view.pickup_discount = Max(0, (after \div 100) * site_cart.pickup_discount)
            /\ r.view.total = Max(0, after - r.view.pickup_discount)

\* a pickup order of subtotal_after 900 was recorded with pickup discount 45,
\* total 855 and no delivery fee under pickup_discount 5
C9_Witness ==
  /\ last.op = "order_submit" /\ last.result = "ok"
  /\ site_cart.pickup_discount = 5
  /\ Len(orders) >= 1
  /\ LET row == orders[Len(orders)] IN
       /\ row.delivery_method = "pickup"
       /\ row.discounted_subtotal = 90000
       /\ row.pickup_discount_value = 4500
       /\ row.total = 85500 /\ row.delivery = 0

\* C10: a cash order is accepted only if change_from is present, a number and
\* >= the total; otherwise it is rejected, and the order log, the promo
\* counters and the cart lines stay as they were.
C10_CashNeedsEnoughChange ==
  \A s \in Clients, f \in OrderForms :
    f[3] = "cash" =>
      \A r \in {OrderNow(s, f)} :
        r.view # NoView =>
          LET enough == f[4].kind = "num" /\ Money(f[4].v) >= r.view.total IN
            /\ r.result = "ok" => enough
            /\ ~enough => /\ r.result # "ok"
                          /\ r.orders = orders
                          /\ r.promos = promos
                          /\ r.cart = session_cart[s]

\* C11: every row order_submit appends reconciles, discounted_subtotal =
\* max(0, subtotal - discount) and total = discounted_subtotal + delivery -
\* pickup_discount_value, under every delivery setting; and the amounts in the
\* notification are the amounts of the row.
C11_OrderRecordReconciles ==
  \A s \in Clients, f \in OrderForms :
    \A r \in {OrderNow(s, f)} :
      r.result = "ok" =>
        \A row \in {r.orders[Len(r.orders)]} :
          /\ row.discounted_subtotal = Max(0, row.subtotal - row.discount)
          /\ row.total = row.discounted_subtotal + row.delivery
                            - row.pickup_discount_value
          /\ r.msg.subtotal = row.subtotal
          /\ r.msg.total = row.total
          /\ r.msg.discount.shown => r.msg.discount.v = row.discount
          /\ r.msg.subtotal_after.shown =>
               r.msg.subtotal_after.v = row.discounted_subtotal
          /\ r.msg.pickup_discount.shown =>
               r.msg.pickup_discount.v = row.pickup_discount_value
          /\ r.msg.delivery.shown => r.msg.delivery.v = row.delivery

\* the promo state get_applied_promo computes for the session right now
PromoStateNow(s) ==
  get_applied_promo(session_promo[s], promos, calc_subtotal(session_cart[s]), today)

\* C12: a successful order_submit appends exactly one row to the order log
\* and leaves the session with an empty cart and no promo code; the row holds
\* the promo code and the promo status computed during the submission.
C12_SuccessfulOrderRecordedOnce ==
  /\ \A s \in Clients, f \in OrderForms :
       \A r \in {OrderNow(s, f)} :
         r.result = "ok" =>
           /\ Len(r.orders) = Len(orders) + 1
           /\ SubSeq(r.orders, 1, Len(orders)) = orders
           /\ r.cart = <<>>
           /\ r.promo_code = NoCode
           /\ \A ps \in {PromoStateNow(s)} :
                /\ r.orders[Len(r.orders)].promo_code =
                     (IF ps.found THEN ps.promo.code ELSE "")
                /\ r.orders[Len(r.orders)].promo_status =
                     (IF ps.found THEN ps.status ELSE "")
  /\ (last.op = "order_submit" /\ last.result = "ok") =>
       (session_cart[last.s] = <<>> /\ session_promo[last.s] = NoCode)

\* an order of a session that held a promo code was accepted: one row on the
\* log with that code, the session's cart and promo code are gone
C12_Witness ==
  /\ last.op = "order_submit" /\ last.result = "ok" /\ last.had # NoCode
  /\ Len(orders) = 1
  /\ orders[1].promo_code = last.had
  /\ orders[1].promo_status = "pending"
  /\ session_cart[last.s] = <<>> /\ session_promo[last.s] = NoCode

\* C13: when the notification of an accepted order fails (the formatter or
\* the sender raises, or _tg_send returns False), the request still ends as a
\* successful order: one row appended, the usage increment kept, the cart and
\* the promo code cleared.
C13_NotifyFailureKeepsOrder ==
  \A s \in Clients, f \in OrderForms, tg \in {"not_sent", "raises"} :
    \A r0 \in {OrderNow(s, f)} :
      r0.result = "ok" =>
        \A r \in {order_notify(r0, tg)} :
          /\ r.result = "ok"
          /\ Len(r.orders) = Len(orders) + 1
          /\ r.orders = r0.orders
          /\ r.promos = r0.promos
          /\ \A c \in AllCodes :
               UsedOf(r.promos, c) =
                 UsedOf(promos, c)
                 + (IF r0.view.status = "ok" /\ r0.view.discount > 0
                       /\ c = r0.view.code THEN 1 ELSE 0)
          /\ r.cart = <<>>
          /\ r.promo_code = NoCode

\* an order with a discount was accepted although the notification raised:
\* the row is on the log, the counter is 1, the cart is empty
C13_Witness ==
  /\ last.op = "order_submit" /\ last.tg = "raises" /\ last.result = "ok"
  /\ Len(orders) = 1
  /\ orders[1].discount > 0
  /\ UsedOf(promos, orders[1].promo_code) = 1
  /\ session_cart[last.s] = <<>> /\ session_promo[last.s] = NoCode

\* the stored code must go: it is not in the store, or inactive, expired or
\* at its cap
MustClear(code, subtotal) ==
  LET list == load_promocodes(promos)
      k == FindPromo(list, code)
  IN  IF k = 0 THEN TRUE
      ELSE _promo_status(list[k], subtotal, today) \in {"inactive", "expired", "limit"}

\* C14: get_applied_promo (in GET /cart and POST /order) and cart_apply_promo
\* clear the session's promo code when the code is unknown, inactive, expired
\* or at its cap, and keep (or store) it when its status is pending or ok.
C14_BadStatusClearsCode ==
  \A s \in Clients :
    LET code == session_promo[s]
        subtotal == calc_subtotal(session_cart[s])
    IN  /\ code # NoCode =>
             \A keep \in {IF MustClear(code, subtotal) THEN NoCode ELSE code} :
               /\ PromoStateNow(s).stored = keep
               /\ cart_page_fx(session_cart[s], code, promos, site_cart,
                               today).promo_code = keep
               /\ \A f \in OrderForms :
                    \A r \in {OrderNow(s, f)} :
                      (r.view # NoView /\ r.result # "ok") => r.promo_code = keep
        /\ \A rq \in PromoRequests :
             (rq[1] = "apply" /\ rq[2] # "") =>
               cart_apply_promo_fx(session_cart[s], code, promos, today,
                                   rq[1], rq[2]).promo_code
                 = (IF MustClear(Upper(rq[2]), subtotal) THEN NoCode ELSE Upper(rq[2]))

\* the cart page dropped the stored code of a promo that is still in the store
C14_Witness ==
  /\ last.op = "cart" /\ last.had # NoCode
  /\ session_promo[last.s] = NoCode
  /\ FindPromo(load_promocodes(promos), last.had) # 0

\* the stored code of session s names a promo that is active, not expired
\* and under its cap
Usable(s) ==
  LET list == load_promocodes(promos)
      k == FindPromo(list, session_promo[s])
  IN  /\ session_promo[s] # NoCode
      /\ k # 0
      /\ list[k].active /\ ~Expired(list[k], today) /\ ~AtCap(list[k])

\* the discount the stored promo of session s gives on an amount
FullDiscount(s, subtotal) ==
  LET list == load_promocodes(promos)
  IN  _calc_promo_discount(subtotal, list[FindPromo(list, session_promo[s])])

\* what a code applied below its min_subtotal gives: it is stored, with
\* status pending and no discount
PendingStored ==
  \A s \in Clients, rq \in PromoRequests :
    LET code == Upper(rq[2])
        list == load_promocodes(promos)
        k == FindPromo(list, code)
        subtotal == calc_subtotal(session_cart[s])
    IN  (rq[1] = "apply" /\ k # 0
           /\ list[IF k = 0 THEN 1 ELSE k].active
           /\ ~Expired(list[IF k = 0 THEN 1 ELSE k], today)
           /\ ~AtCap(list[IF k = 0 THEN 1 ELSE k])
           /\ subtotal < Money(list[IF k = 0 THEN 1 ELSE k].min_subtotal)) =>
          /\ \A r \in {cart_apply_promo_fx(session_cart[s], session_promo[s], promos,
                                           today, rq[1], rq[2])} :
               r.result = "pending" /\ r.promo_code = code
          /\ \A v \in {cart_page_fx(session_cart[s], code, promos, site_cart, today)} :
               /\ v.view.status = "pending" /\ v.view.discount = 0
               /\ v.promo_code = code

\* a cart_add or cart_update that lifts the cart of a session with a pending
\* code to the promo's min_subtotal: the code stays stored, and the cart page
\* and the order submission that follow report ok with the full discount
PendingTurnsOk ==
  \A s \in Clients :
    (/\ last'.op \in {"cart_add", "cart_update"} /\ last'.s = s
     /\ Usable(s)
     /\ PromoStateNow(s).status = "pending"
     /\ calc_subtotal(session_cart'[s]) >= Money(PromoStateNow(s).promo.min_subtotal))
    => /\ session_promo'[s] = session_promo[s]
       /\ \A sub \in {calc_subtotal(session_cart'[s])} :
            /\ \A v \in {cart_page_fx(session_cart'[s], session_promo'[s], promos',
                                      site_cart', today')} :
                 /\ v.view.status = "ok"
                 /\ v.view.discount = FullDiscount(s, sub)
                 /\ v.promo_code = session_promo[s]
            /\ \A f \in OrderForms :
                 \A r \in {order_submit_fx(session_cart'[s], session_promo'[s], promos',
                                           orders', site_cart', today',
                                           f[1], f[2], f[3], f[4])} :
                   r.view # NoView =>
                     /\ r.view.status = "ok"
                     /\ r.view.discount = FullDiscount(s, sub)

\* C15: a code applied while the subtotal is below min_subtotal is stored
\* with status pending and discount 0; once cart_add or cart_update requests
\* raise the subtotal to min_subtotal, the next cart view or order submission
\* reports ok with the full discount, the code not being entered again.
C15_PendingBecomesOk == [](PendingStored) /\ [][PendingTurnsOk]_vars

\* a merge raised a cart of 300 with the pending code SAVE10 to 600: the cart
\* page now shows status ok and a discount of 60
C15_Witness ==
  /\ last.op = "cart_add" /\ last.result = "merged" /\ last.had = "SAVE10"
  /\ session_promo[last.s] = "SAVE10"
  /\ Len(session_cart[last.s]) = 1
  /\ calc_subtotal(session_cart[last.s]) = Money(600)
  /\ \A v \in {cart_page_fx(session_cart[last.s], session_promo[last.s], promos,
                            site_cart, today)} :
       v.view.status = "ok" /\ v.view.discount = Money(60)

\* the units in a cart: one element for each piece of each line
Units(c) == UNION {{<<k, u>> : u \in 1..c[k].qty} : k \in DOMAIN c}

\* C16: the count for the badge (calc_cart_count, /api/cart_count) is the sum
\* of qty over the lines, not the number of lines; after one add of qty q to
\* an empty cart it is q.
C16_CountIsSumOfQty ==
  \A s \in Clients :
    /\ calc_cart_count(session_cart[s]) = Cardinality(Units(session_cart[s]))
    /\ api_cart_count_fx(session_cart[s]).result = Cardinality(Units(session_cart[s]))
    /\ (session_cart[s] = <<>>) =>
         \A rq \in AddRequests :
           \A r \in {cart_add_fx(session_cart[s], session_promo[s], rq[1][1], rq[1][2],
                                 rq[1][3], rq[1][4], rq[2])} :
             r.result = "added" => api_cart_count_fx(r.cart).result = Max(1, rq[2])
    /\ (last.op = "api_cart_count" /\ last.s = s) =>
         last.result = Cardinality(Units(session_cart[s]))

\* /api/cart_count answered 3 for a cart of two lines
C16_Witness ==
  /\ last.op = "api_cart_count" /\ last.result = 3
  /\ Len(session_cart[last.s]) = 2

\* C17: no two lines of a cart have the same category, subname, name and
\* variant.
C17_OneLinePerKey ==
  \A s \in Sessions :
    \A j, k \in DOMAIN session_cart[s] :
      (/\ session_cart[s][j].category = session_cart[s][k].category
       /\ session_cart[s][j].subname = session_cart[s][k].subname
       /\ session_cart[s][j].name = session_cart[s][k].name
       /\ session_cart[s][j].variant = session_cart[s][k].variant) => j = k

\* an add of the item of the first of two lines was merged into that line
C17_Witness ==
  /\ last.op = "cart_add" /\ last.result = "merged"
  /\ Len(session_cart[last.s]) = 2
  /\ session_cart[last.s][1].qty = 2
  /\ session_cart[last.s][2].qty = 1

\* C18: only the admin's reset_used lowers a promo's used counter: order
\* submissions never lower it, and toggle and create / edit of a code that is
\* in the store leave it as it is.
C18_UsedOnlyResetByAdmin ==
  \A c \in AllCodes :
    UsedOf(load_promocodes(promos), c) >= 0 =>
      /\ \A s \in Clients, f \in OrderForms :
           \A r \in {order_notify(OrderNow(s, f), "sent")} :
             UsedOf(r.promos, c) >= UsedOf(promos, c)
      /\ \A rq \in AdminRequests :
           rq[1] = "toggle" =>
             UsedOf(admin_promos_toggle(promos, rq[2]), c) = UsedOf(promos, c)
      /\ \A form \in PromoForms :
           UsedOf(admin_promos_upsert(promos, form), c) = UsedOf(promos, c)

\* the rows of the order log that took a discount from a promo code
Discounted(code) ==
  {k \in DOMAIN orders : orders[k].promo_code = code /\ orders[k].discount > 0}

\* C19: when order submissions of different sessions that take a discount
\* from one promo code overlap, no usage update is lost: once they are through
\* the used counter has grown by the number of such orders (by 2 for two).
C19_NoLostUsageUpdate ==
  (\A s \in Sessions : inflight[s] = Idle) =>
    \A c \in AllCodes :
      UsedOf(promos, c) >= 0 => UsedOf(promos, c) = Cardinality(Discounted(c))

\* out holds one record for each non-empty normalized code of items: the
\* normalized last record of items with that code
LastWins(items, out) ==
  /\ \A j, k \in DOMAIN out : out[j].code = out[k].code => j = k
  /\ {out[k].code : k \in DOMAIN out}
       = {_normalize_promo(items[k]).code : k \in DOMAIN items} \ {""}
  /\ \A k \in DOMAIN out :
       \E j \in DOMAIN items :
         /\ out[k] = _normalize_promo(items[j])
         /\ \A i \in DOMAIN items :
              _normalize_promo(items[i]).code = out[k].code => i <= j

C21_RejectedOrderChangesNothing ==
  /\ \A s \in Clients, f \in OrderForms :
       LET dm == IF f[1] = "" THEN "delivery" ELSE f[1]
           invalid == \/ session_cart[s] = <<>>
                      \/ dm \notin {"delivery", "pickup"}
                      \/ f[2].name = "" \/ f[2].phone = ""
                      \/ (dm = "delivery" /\ f[2].address = "")
       IN  invalid =>
             \A r \in {order_notify(OrderNow(s, f), "sent")} :
               /\ r.result \in {"empty_cart", "bad_method", "need_name_phone",
                                 "need_address"}
               /\ r.cart = session_cart[s]
               /\ r.promo_code = session_promo[s]
               /\ r.orders = orders
               /\ r.promos = promos
  /\ (last.op = "order_submit"
        /\ last.result \in {"empty_cart", "bad_method", "need_name_phone",
                             "need_address"}) =>
       session_promo[last.s] = last.had

\* an order without a delivery address was rejected for a session that holds
\* a promo code whose promo is no longer in the store: cart and code are kept
C21_Witness ==
  /\ last.op = "order_submit" /\ last.result = "need_address"
  /\ last.had # NoCode
  /\ session_promo[last.s] = last.had
  /\ session_cart[last.s] # <<>>
  /\ FindPromo(load_promocodes(promos), last.had) = 0

\* C22: with requests served one at a time and no admin edit, a promo with
\* max_uses > 0 never has used > max_uses, and never more than max_uses rows
\* of the order log carry a discount from it, also when several sessions
\* stored the code while it was under its cap.
C22_CapNeverExceeded ==
  \A k \in DOMAIN promos :
    promos[k].max_uses > 0 =>
      /\ promos[k].used <= promos[k].max_uses
      /\ Cardinality(Discounted(promos[k].code)) <= promos[k].max_uses

\* both sessions stored FIX while it was unused; the first order took the
\* discount, the second was recorded with status limit and no discount
C22_Witness ==
  /\ Len(orders) = 2
  /\ orders[1].promo_code = "FIX" /\ orders[1].discount > 0
  /\ orders[2].promo_code = "FIX" /\ orders[2].discount = 0
  /\ orders[2].promo_status = "limit"
  /\ UsedOf(promos, "FIX") = 1

\* the promo document has an active, unexpired promo under its cap for the
\* code, and the amount reaches its min_subtotal
Redeemable(code, subtotal) ==
  \E k \in DOMAIN promos :
    /\ Upper(promos[k].code) = code
    /\ \A j \in DOMAIN promos : Upper(promos[j].code) = code => j <= k
    /\ promos[k].active
    /\ ~Expired(promos[k], today)
    /\ ~AtCap(promos[k])
    /\ subtotal >= Money(promos[k].min_subtotal)

\* C23: the promo state is computed anew from the promo store and the
\* subtotal at every cart view and order submission: a discount is shown or
\* recorded only if at that time the stored code is in the store, active, not
\* expired, under its cap and the subtotal is >= min_subtotal; so after the
\* admin deletes or deactivates the promo, or the subtotal falls below
\* min_subtotal, no order records a discount from it.
C23_DiscountOnlyIfRedeemableNow ==
  \A s \in Clients :
    \A sub \in {calc_subtotal(session_cart[s])} :
      /\ \A v \in {cart_page_fx(session_cart[s], session_promo[s], promos, site_cart,
                                today)} :
           v.view.discount > 0 =>
             (session_promo[s] # NoCode /\ Redeemable(session_promo[s], sub))
      /\ \A f \in OrderForms :
           \A r \in {order_notify(OrderNow(s, f), "sent")} :
             (r.result = "ok" /\ r.orders[Len(r.orders)].discount > 0) =>
               /\ session_promo[s] # NoCode
               /\ r.orders[Len(r.orders)].promo_code = session_promo[s]
               /\ Redeemable(session_promo[s], sub)
      /\ (session_promo[s] # NoCode /\ ~Redeemable(session_promo[s], sub)) =>
           \A f \in OrderForms :
             \A r \in {order_notify(OrderNow(s, f), "sent")} :
               r.result = "ok" => /\ r.orders[Len(r.orders)].discount = 0
                                  /\ r.promos = promos

\* an order of a session that held the code of a promo the admin had
\* deactivated was recorded without discount, and the counter stayed 0
C23_Witness ==
  /\ last.op = "order_submit" /\ last.result = "ok" /\ last.had # NoCode
  /\ Len(orders) = 1
  /\ orders[1].promo_code = last.had
  /\ orders[1].promo_status = "inactive"
  /\ orders[1].discount = 0
  /\ orders[1].subtotal = orders[1].discounted_subtotal
  /\ UsedOf(promos, last.had) = 0

\* the catalog item a form points at has no usable price: the flat price is
\* absent or not a number (variant_idx < 0), or the variants list is missing
\* or too short, or the variant's price is not a number (variant_idx >= 0)
PriceUnusable(item, variant_idx) ==
  IF variant_idx < 0 THEN item.price.kind # "num"
  ELSE \/ variant_idx + 1 \notin DOMAIN item.variants
       \/ item.variants[variant_idx + 1].price.kind # "num"

\* C24: cart_add with variant_idx < 0 takes the item's flat price; whenever
\* the price cannot be resolved (flat price absent or non-numeric, variants
\* missing or too short, variant price non-numeric) the request ends as the
\* handled "price not determined" error with the cart unchanged, and no
\* exception leaves the handler
C24_UnusablePriceIsHandled ==
  \A s \in Clients :
    \A a \in AddRequests :
      \A it \in {_find_menu_item(a[1][1], a[1][2], a[1][3])} :
        it.found =>
          \A r \in {cart_add_fx(session_cart[s], session_promo[s], a[1][1], a[1][2],
                                a[1][3], a[1][4], a[2])} :
            /\ PriceUnusable(it, a[1][4]) =>
                 (r.result = "no_price" /\ r.cart = session_cart[s])
            /\ (~PriceUnusable(it, a[1][4]) /\ a[1][4] < 0) =>
                 /\ r.result \in {"added", "merged"}
                 /\ r.result = "added" =>
                      r.cart[Len(r.cart)].unit_price = it.price.v

\* a form that names no item of the catalog: the category is not in it, the
\* category has subsections and the form names none of them, or the index is
\* not a position of the item list
NamesNoItem(category, subname, item_idx) ==
  \/ category \notin DOMAIN menu_json
  \/ /\ category \in DOMAIN menu_json
     /\ LET cat == menu_json[category] IN
        IF cat.shape = "subsections"
        THEN \/ subname = ""
             \/ subname \notin DOMAIN cat.subs
             \/ /\ subname \in DOMAIN cat.subs
                /\ ~(0 <= item_idx /\ item_idx < Len(cat.subs[subname]))
        ELSE ~(0 <= item_idx /\ item_idx < Len(cat.items))

\* cart_add leaves the catalog as it is
CartAddKeepsCatalog == (last'.op = "cart_add" /\ last' # last) => menu_json' = menu_json

\* C25: when a form names no item of the catalog (unknown category, missing
\* or unknown subsection of a category with subsections, index outside the
\* item list) _find_menu_item finds nothing for every index cart_add passes
\* to it, cart_add ends in an error with the cart as it was, and no cart_add
\* changes the catalog
C25_UnknownItemChangesNothing ==
  /\ [](\A s \in Clients :
          \A a \in AddRequests :
            NamesNoItem(a[1][1], a[1][2], a[1][3]) =>
              /\ (a[1][3] >= 0 =>
                    ~_find_menu_item(a[1][1], a[1][2], a[1][3]).found)
              /\ \A r \in {cart_add_fx(session_cart[s], session_promo[s], a[1][1],
                                        a[1][2], a[1][3], a[1][4], a[2])} :
                   /\ r.result \in {"not_found", "bad_request"}
                   /\ r.cart = session_cart[s]
                   /\ r.promo_code = session_promo[s])
  /\ [][CartAddKeepsCatalog]_vars

\* a request for an item the admin had removed from the catalog was answered
\* "not found" and left a cart with lines as it was
C25_Witness ==
  /\ last.op = "cart_add" /\ last.result = "not_found"
  /\ menu_json = MenuShort
  /\ session_cart["s1"] # <<>>

AllQtyPositive(c) == \A k \in DOMAIN c : c[k].qty >= 1

\* C26: every line of every cart has qty >= 1: cart_add raises the qty of the
\* form to at least 1, and cart_update clamps the new qty (the given one, or
\* the current one plus or minus 1) at 0 and removes the line when it is 0
C26_QtyAtLeastOne ==
  \A s \in Sessions :
    /\ AllQtyPositive(session_cart[s])
    /\ \A a \in AddRequests :
         \A r \in {cart_add_fx(session_cart[s], session_promo[s], a[1][1], a[1][2],
                               a[1][3], a[1][4], a[2])} :
           /\ AllQtyPositive(r.cart)
           /\ r.result = "added" => r.cart[Len(r.cart)].qty = Max(1, a[2])
           /\ r.result = "merged" =>
                Cardinality(Units(r.cart)) =
                  Cardinality(Units(session_cart[s])) + Max(1, a[2])
    /\ \A i \in IdxInputs, f \in UpdateForms :
         \A r \in {cart_update_fx(session_cart[s], session_promo[s], i, f[1], f[2])} :
           /\ AllQtyPositive(r.cart)
           /\ (0 <= i /\ i < Len(session_cart[s])) =>
                LET cur == session_cart[s][i + 1].qty
                    new_q == IF f[1] = "inc" THEN cur + 1
                             ELSE IF f[1] = "dec" THEN Max(0, cur - 1)
                             ELSE Max(0, f[2])
                IN  IF new_q = 0
                    THEN r.cart = Pop(session_cart[s], i)
                    ELSE /\ Len(r.cart) = Len(session_cart[s])
                         /\ r.cart[i + 1].qty = new_q

\* a cart_update that brought the only line of a cart to qty 0 left an empty
\* cart (on an empty cart the handler answers "not found")
C26_Witness ==
  /\ last.op = "cart_update" /\ last.result = "updated"
  /\ session_cart["s1"] = <<>>

\* the two carts have the same lines in the same order, qty aside
SameButQty(c, d) ==
  /\ Len(c) = Len(d)
  /\ \A k \in DOMAIN c : [d[k] EXCEPT !.qty = c[k].qty] = c[k]

\* C30: the unit_price of a line is the one it was created with: a cart_add
\* that merges into a line changes the qty of that one line and nothing else
\* (no unit_price, no position), whatever price the catalog gives for the
\* item now, and cart_update changes no unit_price
C30_UnitPriceFixedAtCreation ==
  \A s \in Clients :
    \A c \in {session_cart[s]} :
      /\ \A a \in AddRequests :
           \A r \in {cart_add_fx(c, session_promo[s], a[1][1], a[1][2], a[1][3],
                                 a[1][4], a[2])} :
             /\ r.result = "merged" =>
                  /\ SameButQty(c, r.cart)
                  /\ Cardinality({k \in DOMAIN c : r.cart[k].qty # c[k].qty}) = 1
             /\ r.result = "added" =>
                  /\ Len(r.cart) = Len(c) + 1
                  /\ \A k \in DOMAIN c : r.cart[k] = c[k]
      /\ \A i \in IdxInputs, f \in UpdateForms :
           \A r \in {cart_update_fx(c, session_promo[s], i, f[1], f[2])} :
             \/ SameButQty(c, r.cart)
             \/ /\ 0 <= i /\ i < Len(c)
                /\ r.cart = Pop(c, i)

\* a second add of Ale, after the admin had raised its price to 350, merged
\* into the line created at 300, and the line still says 300
C30_Witness ==
  /\ last.op = "cart_add" /\ last.result = "merged"
  /\ menu_json = MenuRepriced
  /\ \E k \in DOMAIN session_cart["s1"] :
       /\ session_cart["s1"][k].name = "Ale"
       /\ session_cart["s1"][k].qty > 1
       /\ session_cart["s1"][k].unit_price # MenuRepriced.Beer.items[1].price.v

\* C27: the delivery settings are never negative, whatever numbers the admin
\* saves, so no cart view and no order is priced with a negative delivery fee
\* or a negative total
C27_SettingsNonNegative ==
  /\ site_cart.delivery_price >= 0
  /\ site_cart.free_from >= 0
  /\ site_cart.pickup_discount >= 0
  /\ \A s \in Clients :
       /\ \A v \in {cart_page_fx(session_cart[s], session_promo[s], promos,
                                  site_cart, today)} :
            v.view.delivery >= 0 /\ v.view.total >= 0
       /\ \A f \in OrderForms :
            \A r \in {OrderNow(s, f)} :
              r.result = "ok" =>
                /\ r.orders[Len(r.orders)].delivery >= 0
                /\ r.orders[Len(r.orders)].total >= 0
  /\ \A k \in DOMAIN orders : orders[k].delivery >= 0 /\ orders[k].total >= 0

\* C28: whatever the interleaving of save_promocodes calls, which all write
\* to promocodes.tmp and rename it over the store, a load_promocodes never
\* reads a partly written promo document
C28_ReaderSeesWholeDocument ==
  /\ load_promocodes_file(fs) = "whole"
  /\ last.op = "load_promocodes" => last.result = "whole"

\* C29: the order log only grows: a call of _append_order_row leaves one row
\* more, after the rows that were there; every cell of an old row keeps its
\* value; every column of the old header keeps its position; the columns the
\* row brings anew follow them, in the row's order, and are empty in the old
\* rows; the new row holds the row's values under their columns
C29_OrderLogAppendOnly ==
  last.op = "_append_order_row" =>
    LET in == last.result.file
        row == last.result.row
        out == last.result.out
        n == Len(in.rows)
        old == IF in.exists THEN in.header ELSE <<>>
        fresh == SelectSeq(Keys(row), LAMBDA k : ~Has(old, k))
    IN  /\ out.exists
        /\ Len(out.rows) = n + 1
        /\ out.header = old \o fresh
        /\ \A k \in 1..(n + 1) : Len(out.rows[k]) = Len(out.header)
        /\ \A k \in 1..n :
             /\ \A j \in DOMAIN old : out.rows[k][j] = in.rows[k][j]
             /\ \A j \in DOMAIN out.header : j > Len(old) => out.rows[k][j] = ""
        /\ \A i \in DOMAIN row :
             \E j \in DOMAIN out.header :
               /\ out.header[j] = row[i][1]
               /\ out.rows[n + 1][j] = CsvText(row[i][2])
        /\ \A j \in DOMAIN out.header :
             ~Has(Keys(row), out.header[j]) => out.rows[n + 1][j] = ""

\* a row with a column the log did not have was added to a log of two rows:
\* the header grew at its end and the file was written anew
C29_Witness ==
  /\ last.op = "_append_order_row"
  /\ Len(last.result.file.rows) > 1
  /\ Len(last.result.out.header) > Len(last.result.file.header)
  /\ Keys(last.result.row)[1] # last.result.file.header[1]
====
